---- MODULE Spec2Model ----
(***************************************************************************)
(* Discrete-event task simulator: TaskSimulator (constructor, run),        *)
(* task_process, Host, NetworkLink and the RAM container, together with a  *)
(* stand-alone container object driven by arbitrary get/put/abort calls.   *)
(*                                                                         *)
(* Indices are 1-based here (C++ index i is i+1).  The event queue, the    *)
(* one-shot event and the counted resource come from the simcpp20 library: *)
(* they are modelled from sections 4.1-4.3 of the specification.           *)
(*                                                                         *)
(* container arithmetic is uint64_t in the source; every capacity used     *)
(* here is far below 2^63, so level_ + amount never wraps.                 *)
(***************************************************************************)
EXTENDS Integers, Sequences, FiniteSets, TLC

\* ------------------------------------------------------------------ bounds
NumTasks == 3
NumHosts == 2
MaxCores == 2
RamCap == 2
MaxSleep == 1
MaxRun == 2
MaxNet == 1
MaxCalls == 3
MaxLinkHosts == 3

VARIABLES
  hosts_cfg,     \* config.hosts: host id -> [cpu_cores, ram]
  tasks_,        \* TaskSimulator::tasks_ (with dependency_indices, host_index)
  status,        \* where the driver is: new, validated, validation_error, ctor_error,
                 \* constructed, running, returned, error (container: the stand-alone
                 \* one; csv: a call of parse_tasks_csv; network, network_ready: a
                 \* stand-alone NetworkLink before and after its construction)
  now,           \* sim_.now()
  heap,          \* scheduled events: set of [time, id, ev]
  next_id,       \* insertion sequence number of the event queue
  pc,            \* per task: the co_await its process is suspended at
  dep_pos,       \* per task: position in dependency_indices of the loop of step 2
  completed,     \* task_completed_: per task pending / triggered / processed
  subs,          \* per completion event: the processes awaiting it, in order
  cpu,           \* per host: Host::cpu  [capacity, in_use, waiters]
  links,         \* NetworkLink::links_: <<from, to>> -> [capacity, in_use, waiters]
  ram,           \* per host: Host::ram  [capacity, level, get_queue, put_queue]
  hist,          \* observations of the run (start/finish times, grants, releases)
  cont,          \* the stand-alone container
  c_aborted,     \* events of the stand-alone container marked aborted
  c_calls,       \* number of get/put calls made on the stand-alone container
  c_hist,        \* observations of the stand-alone container's calls
  csv            \* parse_tasks_csv: the file's lines and the locals of the call

vars == <<hosts_cfg, tasks_, status, now, heap, next_id, pc, dep_pos, completed,
          subs, cpu, links, ram, hist, cont, c_aborted, c_calls, c_hist, csv>>

TaskIds == 1..NumTasks
HostIds == 1..NumHosts
UnknownHost == NumHosts + 1
UnknownName == NumTasks + 1

\* ------------------------------------------------------------ experiments
\* models::Task with the index member left at its value-initialised state (the first
\* position) instead of the task's position in the list.
MkTaskNoIndex(i, h, sl, rt, rm, nt, deps) ==
  [name |-> i, host |-> h, initial_sleep_time |-> sl, run_time |-> rt, ram |-> rm,
   network_time |-> nt, dependencies |-> deps, dependency_indices |-> <<>>,
   index |-> 1, host_index |-> 0]

\* models::Task; index is the task's position in the list it is built into.
MkTask(i, h, sl, rt, rm, nt, deps) ==
  [name |-> i, host |-> h, initial_sleep_time |-> sl, run_time |-> rt, ram |-> rm,
   network_time |-> nt, dependencies |-> deps, dependency_indices |-> <<>>,
   index |-> i, host_index |-> 0]

\* models::HostConfig
MkHosts(cores, cap) == [h \in HostIds |-> [cpu_cores |-> cores, ram |-> cap]]

OtherHost == IF NumHosts >= 2 THEN 2 ELSE 1

Min(a, b) == IF a <= b THEN a ELSE b

\* S5: CPU contention, every task on one single-core host.
BaseCpu == [hosts |-> MkHosts(1, RamCap),
            tasks |-> [i \in TaskIds |-> MkTask(i, 1, 0, 1, 1, 0, <<>>)]]
\* S4: RAM contention, every task needs the whole RAM of a multi-core host.
BaseRam == [hosts |-> MkHosts(MaxCores, RamCap),
            tasks |-> [i \in TaskIds |-> MkTask(i, 1, 0, 1, RamCap, 0, <<>>)]]
\* S2, S6: linear dependency chain on one single-core host.
BaseChain == [hosts |-> MkHosts(1, RamCap),
              tasks |-> [i \in TaskIds |->
                 MkTask(i, 1, 0, 1, 1, 0, IF i = 1 THEN <<>> ELSE <<i - 1>>)]]
\* S3: cross-host dependency; the later tasks all pull from task 1 over one link.
BaseFan == [hosts |-> MkHosts(1, RamCap),
            tasks |-> [i \in TaskIds |->
               IF i = 1 THEN MkTask(1, 1, 0, 1, 1, 1, <<>>)
               ELSE MkTask(i, OtherHost, 0, 1, 1, 0, <<1>>)]]
\* The last task depends on all the others, which are on another host.
BaseJoin == [hosts |-> MkHosts(1, RamCap),
             tasks |-> [i \in TaskIds |->
                IF i < NumTasks THEN MkTask(i, 1, 0, 1, 1, 1, <<>>)
                ELSE MkTask(i, OtherHost, 0, 1, 1, 0, [k \in 1..(NumTasks - 1) |-> k])]]

Baselines == {BaseCpu, BaseRam, BaseChain, BaseFan, BaseJoin}

\* One changed field of an experiment.
Edits ==
  {[f |-> "none", i |-> 1, v |-> 0, d |-> <<>>]}
  \cup {[f |-> "host", i |-> i, v |-> v, d |-> <<>>] : i \in TaskIds, v \in 1..UnknownHost}
  \cup {[f |-> "sleep", i |-> i, v |-> v, d |-> <<>>] : i \in TaskIds, v \in 0..MaxSleep}
  \cup {[f |-> "run", i |-> i, v |-> v, d |-> <<>>] : i \in TaskIds, v \in 0..MaxRun}
  \cup {[f |-> "ram", i |-> i, v |-> v, d |-> <<>>] : i \in TaskIds, v \in 0..(RamCap + 1)}
  \cup {[f |-> "net", i |-> i, v |-> v, d |-> <<>>] : i \in TaskIds, v \in 0..MaxNet}
  \cup {[f |-> "deps", i |-> i, v |-> 0, d |-> d] :
          i \in TaskIds, d \in {<<>>} \cup {<<j>> : j \in 1..UnknownName}}
  \cup {[f |-> "cores", i |-> h, v |-> v, d |-> <<>>] : h \in HostIds, v \in 1..MaxCores}
  \cup {[f |-> "cap", i |-> h, v |-> v, d |-> <<>>] : h \in HostIds, v \in 1..RamCap}
  \cup {[f |-> "zero", i |-> i, v |-> 0, d |-> <<>>] : i \in TaskIds}
  \cup {[f |-> "skip", i |-> i, v |-> 0, d |-> <<>>] : i \in TaskIds}
  \cup {[f |-> "len", i |-> 1, v |-> v, d |-> <<>>] : v \in 0..(NumTasks - 1)}

\* "zero" makes a task a zero-resource task; "len" keeps the first v tasks of the list;
\* "skip" puts the name of no task in front of a task's dependency list.
ApplyEdit(x, e) ==
  CASE e.f = "none"  -> x
    [] e.f = "len"   -> [x EXCEPT !.tasks = [i \in 1..Min(e.v, Len(x.tasks)) |-> x.tasks[i]]]
    [] e.f \notin {"cores", "cap"} /\ e.i \notin DOMAIN x.tasks -> x
    [] e.f = "zero"  -> [x EXCEPT !.tasks[e.i].run_time = 0, !.tasks[e.i].ram = 0]
    [] e.f = "host"  -> [x EXCEPT !.tasks[e.i].host = e.v]
    [] e.f = "sleep" -> [x EXCEPT !.tasks[e.i].initial_sleep_time = e.v]
    [] e.f = "run"   -> [x EXCEPT !.tasks[e.i].run_time = e.v]
    [] e.f = "ram"   -> [x EXCEPT !.tasks[e.i].ram = e.v]
    [] e.f = "net"   -> [x EXCEPT !.tasks[e.i].network_time = e.v]
    [] e.f = "deps"  -> [x EXCEPT !.tasks[e.i].dependencies = e.d]
    [] e.f = "skip"  -> [x EXCEPT !.tasks[e.i].dependencies = <<UnknownName>> \o @]
    [] e.f = "cores" -> [x EXCEPT !.hosts[e.i].cpu_cores = e.v]
    [] e.f = "cap"   -> [x EXCEPT !.hosts[e.i].ram = e.v]

\* The experiments explored: every scenario above with up to two fields changed.
Experiments == {ApplyEdit(ApplyEdit(b, e1), e2) : b \in Baselines, e1 \in Edits, e2 \in Edits}

\* ------------------------------------------------- simcpp20 (sections 4.1-4.3)
Ev(kind, t) == [kind |-> kind, task |-> t]

\* simulation::schedule: insert (now + delay, next_seq, event) into the heap.
Schedule(w, ev, delay) ==
  [w EXCEPT !.heap = @ \cup {[time |-> w.now + delay, id |-> w.next_id, ev |-> ev]},
            !.next_id = @ + 1]

\* Among the entries of the least time the one scheduled last is popped.
MinEntryLatest(h) ==
  CHOOSE e \in h : \A o \in h : e.time < o.time \/ (e.time = o.time /\ e.id >= o.id)

\* The entry run() pops next: least time, then least sequence number.
MinEntry(h) ==
  CHOOSE e \in h : \A o \in h : e.time < o.time \/ (e.time = o.time /\ e.id <= o.id)

\* resource::request: grant at once if a slot is free, else enqueue.
request(r, ev) ==
  IF r.in_use < r.capacity
  THEN [res |-> [r EXCEPT !.in_use = @ + 1], fired |-> <<ev>>]
  ELSE [res |-> [r EXCEPT !.waiters = Append(@, ev)], fired |-> <<>>]

\* resource::release: free the slot and hand it to the head waiter, if any.
\* (No request of this program is ever aborted, so no entry is skipped.)
release(r) ==
  LET r1 == [r EXCEPT !.in_use = @ - 1] IN
  IF r1.waiters # <<>>
  THEN [res |-> [r1 EXCEPT !.in_use = @ + 1, !.waiters = Tail(@)],
        fired |-> <<Head(r1.waiters)>>]
  ELSE [res |-> r1, fired |-> <<>>]

\* ------------------------------------------------------------ container.hpp
\* container(sim, capacity, init)
container(capacity, init) ==
  [capacity |-> capacity, level |-> init, get_queue |-> <<>>, put_queue |-> <<>>]

\* A drain that passes over a head request it cannot satisfy and goes on to the next.
RECURSIVE process_get_queue_skip(_, _)
process_get_queue_skip(c, aborted) ==
  IF c.get_queue = <<>> THEN [c |-> c, fired |-> <<>>]
  ELSE LET req == Head(c.get_queue) IN
       IF req.ev \in aborted
       THEN process_get_queue_skip([c EXCEPT !.get_queue = Tail(@)], aborted)
       ELSE IF c.level >= req.amount
            THEN LET r == process_get_queue_skip(
                            [c EXCEPT !.level = @ - req.amount, !.get_queue = Tail(@)],
                            aborted)
                 IN  [c |-> r.c, fired |-> <<req.ev>> \o r.fired]
            ELSE LET r == process_get_queue_skip([c EXCEPT !.get_queue = Tail(@)], aborted)
                 IN  [c |-> [r.c EXCEPT !.get_queue = <<req>> \o @], fired |-> r.fired]

\* process_get_queue: grant from the head while the level covers the head request;
\* aborted requests are dropped.
RECURSIVE process_get_queue(_, _)
process_get_queue(c, aborted) ==
  IF c.get_queue = <<>> THEN [c |-> c, fired |-> <<>>]
  ELSE LET req == Head(c.get_queue) IN
       IF req.ev \in aborted
       THEN process_get_queue([c EXCEPT !.get_queue = Tail(@)], aborted)
       ELSE IF c.level >= req.amount
            THEN LET r == process_get_queue(
                            [c EXCEPT !.level = @ - req.amount, !.get_queue = Tail(@)],
                            aborted)
                 IN  [c |-> r.c, fired |-> <<req.ev>> \o r.fired]
            ELSE [c |-> c, fired |-> <<>>]

\* process_put_queue: the same for the put queue and the room left.
RECURSIVE process_put_queue(_, _)
process_put_queue(c, aborted) ==
  IF c.put_queue = <<>> THEN [c |-> c, fired |-> <<>>]
  ELSE LET req == Head(c.put_queue) IN
       IF req.ev \in aborted
       THEN process_put_queue([c EXCEPT !.put_queue = Tail(@)], aborted)
       ELSE IF c.level + req.amount <= c.capacity
            THEN LET r == process_put_queue(
                            [c EXCEPT !.level = @ + req.amount, !.put_queue = Tail(@)],
                            aborted)
                 IN  [c |-> r.c, fired |-> <<req.ev>> \o r.fired]
            ELSE [c |-> c, fired |-> <<>>]

\* get that queues the request before it tests the amount against the capacity.
get_late_check(c, amount, ev, aborted) ==
  IF c.level >= amount
  THEN LET r == process_put_queue([c EXCEPT !.level = @ - amount], aborted)
       IN  [c |-> r.c, fired |-> <<ev>> \o r.fired, error |-> FALSE]
  ELSE [c |-> [c EXCEPT !.get_queue = Append(@, [amount |-> amount, ev |-> ev])],
        fired |-> <<>>, error |-> amount > c.capacity]

\* container::get.  error = TRUE is the std::invalid_argument thrown at line 43.
get(c, amount, ev, aborted) ==
  IF amount > c.capacity THEN [c |-> c, fired |-> <<>>, error |-> TRUE]
  ELSE IF c.level >= amount
       THEN LET r == process_put_queue([c EXCEPT !.level = @ - amount], aborted)
            IN  [c |-> r.c, fired |-> <<ev>> \o r.fired, error |-> FALSE]
       ELSE [c |-> [c EXCEPT !.get_queue = Append(@, [amount |-> amount, ev |-> ev])],
             fired |-> <<>>, error |-> FALSE]

\* put that adds the amount without testing the room left.
put_unchecked(c, amount, ev, aborted) ==
  IF amount > c.capacity THEN [c |-> c, fired |-> <<>>, error |-> TRUE]
  ELSE LET r == process_get_queue([c EXCEPT !.level = @ + amount], aborted)
       IN  [c |-> r.c, fired |-> <<ev>> \o r.fired, error |-> FALSE]

\* put that does not drain the get queue after raising the level.
put_no_drain(c, amount, ev, aborted) ==
  IF amount > c.capacity THEN [c |-> c, fired |-> <<>>, error |-> TRUE]
  ELSE IF c.level + amount <= c.capacity
       THEN [c |-> [c EXCEPT !.level = @ + amount], fired |-> <<ev>>, error |-> FALSE]
       ELSE [c |-> [c EXCEPT !.put_queue = Append(@, [amount |-> amount, ev |-> ev])],
             fired |-> <<>>, error |-> FALSE]

\* container::put.  error = TRUE is the std::invalid_argument thrown at line 69.
put(c, amount, ev, aborted) ==
  IF amount > c.capacity THEN [c |-> c, fired |-> <<>>, error |-> TRUE]
  ELSE IF c.level + amount <= c.capacity
       THEN LET r == process_get_queue([c EXCEPT !.level = @ + amount], aborted)
            IN  [c |-> r.c, fired |-> <<ev>> \o r.fired, error |-> FALSE]
       ELSE [c |-> [c EXCEPT !.put_queue = Append(@, [amount |-> amount, ev |-> ev])],
             fired |-> <<>>, error |-> FALSE]

\* ---------------------------------------------------------- the simulator
\* The mutable state of the TaskSimulator object as one record.
World ==
  [status |-> status, now |-> now, heap |-> heap, next_id |-> next_id, pc |-> pc,
   dep_pos |-> dep_pos, completed |-> completed, subs |-> subs, cpu |-> cpu,
   links |-> links, ram |-> ram, hist |-> hist]

Commit(w) ==
  /\ status' = w.status
  /\ now' = w.now
  /\ heap' = w.heap
  /\ next_id' = w.next_id
  /\ pc' = w.pc
  /\ dep_pos' = w.dep_pos
  /\ completed' = w.completed
  /\ subs' = w.subs
  /\ cpu' = w.cpu
  /\ links' = w.links
  /\ ram' = w.ram
  /\ hist' = w.hist

CpuKey(h) == <<"cpu", h, h>>
LinkKey(from, to) == <<"link", from, to>>

\* event::trigger of the events a resource granted: each is scheduled at now;
\* the grant of a slot of resource `key` to the requesting task is recorded.
RECURSIVE GrantSlots(_, _, _)
GrantSlots(w, key, fired) ==
  IF fired = <<>> THEN w
  ELSE LET ev == Head(fired)
           w1 == Schedule([w EXCEPT !.hist.holding[ev.task] = @ \cup {key},
                                    !.hist.trig_at[ev] = w.now,
                                    !.hist.cpu_at[ev.task] =
                                       IF key[1] = "cpu" THEN w.now ELSE @], ev, 0)
       IN  GrantSlots(w1, key, Tail(fired))

\* event::trigger of the events a container granted.
RECURSIVE GrantRam(_, _)
GrantRam(w, fired) ==
  IF fired = <<>> THEN w
  ELSE LET ev == Head(fired)
           st == IF ev.kind = "get" THEN "granted" ELSE "returned"
           at == IF ev.kind = "get" THEN w.now ELSE w.hist.ram_at[ev.task]
           w1 == Schedule([w EXCEPT !.hist.ram_state[ev.task] = st,
                                    !.hist.trig_at[ev] = w.now,
                                    !.hist.ram_at[ev.task] = at], ev, 0)
       IN  GrantRam(w1, Tail(fired))

\* NetworkLink::get_link: the key of the link, or <<>> where the code throws.
\* links_.find(key) leaves the map as it is.
get_link(lk, from_host_index, to_host_index) ==
  IF <<from_host_index, to_host_index>> \in DOMAIN lk
  THEN <<from_host_index, to_host_index>> ELSE <<>>

CurrentDep(w, t) == tasks_[t].dependency_indices[w.dep_pos[t]]

\* An exception leaving a task process: it surfaces from run() (section 7).
Throw(w, t) == [w EXCEPT !.status = "error", !.pc[t] = "Failed"]

\* One unit of RAM is taken whatever the task's ram is.
AcquireRamOneUnit(w, t) ==
  LET h == tasks_[t].host_index
      r == get(w.ram[h], 1, Ev("get", t), {})
  IN  IF r.error THEN Throw(w, t)
      ELSE GrantRam([w EXCEPT !.ram[h] = r.c, !.pc[t] = "WaitingRam",
                              !.hist.ram_state[t] = "waiting",
                              !.hist.ready_time[t] = w.now,
                              !.hist.get_no = @ + 1,
                              !.hist.get_at[t] = w.hist.get_no + 1], r.fired)

\* task_process, step 4: co_await host->ram.get(task.ram)
AcquireRam(w, t) ==
  LET h == tasks_[t].host_index
      r == get(w.ram[h], tasks_[t].ram, Ev("get", t), {})
  IN  IF r.error THEN Throw(w, t)
      ELSE GrantRam([w EXCEPT !.ram[h] = r.c, !.pc[t] = "WaitingRam",
                              !.hist.ram_state[t] = "waiting",
                              !.hist.ready_time[t] = w.now,
                              !.hist.get_no = @ + 1,
                              !.hist.get_at[t] = w.hist.get_no + 1], r.fired)

RECURSIVE WaitDependencies(_, _)
RECURSIVE AfterDependency(_, _)

\* task_process, step 2: for (dep_index : dependency_indices) co_await task_completed[dep_index]
WaitDependencies(w, t) ==
  IF w.dep_pos[t] > Len(tasks_[t].dependency_indices) THEN AcquireRam(w, t)
  ELSE LET d == CurrentDep(w, t) IN
       IF w.completed[d] = "processed" THEN AfterDependency(w, t)
       ELSE [w EXCEPT !.subs[d] = Append(@, t), !.pc[t] = "WaitingDeps"]

\* The dependency's data is taken as present at once: no link, no transfer.
AfterDependencyNoTransfer(w, t) ==
  WaitDependencies([w EXCEPT !.dep_pos[t] = @ + 1,
                             !.hist.passed[t] = Append(@, w.now)], t)

\* A link is requested for every dependency on another host, whatever its network_time.
AfterDependencyAlwaysLink(w, t) ==
  LET dep_task == tasks_[CurrentDep(w, t)]
      task == tasks_[t]
  IN  IF dep_task.host_index # task.host_index
      THEN LET link == get_link(w.links, dep_task.host_index, task.host_index) IN
           IF link = <<>> THEN Throw(w, t)
           ELSE LET r == request(w.links[link], Ev("link", t)) IN
                GrantSlots([w EXCEPT !.links[link] = r.res, !.pc[t] = "WaitingLink",
                                     !.hist.link_req[t] = Append(@, CurrentDep(w, t)),
                                     !.hist.xfer[t] = Append(@,
                                        [dep |-> CurrentDep(w, t), link |-> link,
                                         no |-> w.hist.req_no + 1, busy |-> r.fired = <<>>,
                                         start |-> -1, end |-> -1]),
                                     !.hist.req_no = @ + 1,
                                     !.hist.req_at[t] = w.hist.req_no + 1],
                           LinkKey(link[1], link[2]), r.fired)
      ELSE WaitDependencies([w EXCEPT !.dep_pos[t] = @ + 1,
                                      !.hist.passed[t] = Append(@, w.now)], t)

\* task_process: the cross-host test after a dependency completed, and link->request()
AfterDependency(w, t) ==
  LET dep_task == tasks_[CurrentDep(w, t)]
      task == tasks_[t]
  IN  IF dep_task.host_index # task.host_index /\ dep_task.network_time > 0
      THEN LET link == get_link(w.links, dep_task.host_index, task.host_index) IN
           IF link = <<>> THEN Throw(w, t)
           ELSE LET r == request(w.links[link], Ev("link", t)) IN
                GrantSlots([w EXCEPT !.links[link] = r.res, !.pc[t] = "WaitingLink",
                                     !.hist.link_req[t] = Append(@, CurrentDep(w, t)),
                                     !.hist.xfer[t] = Append(@,
                                        [dep |-> CurrentDep(w, t), link |-> link,
                                         no |-> w.hist.req_no + 1, busy |-> r.fired = <<>>,
                                         start |-> -1, end |-> -1]),
                                     !.hist.req_no = @ + 1,
                                     !.hist.req_at[t] = w.hist.req_no + 1],
                           LinkKey(link[1], link[2]), r.fired)
      ELSE WaitDependencies([w EXCEPT !.dep_pos[t] = @ + 1,
                                      !.hist.passed[t] = Append(@, w.now)], t)

\* task_process, step 1: the initial sleep
InitialSleep(w, t) ==
  IF tasks_[t].initial_sleep_time > 0
  THEN Schedule([w EXCEPT !.pc[t] = "Sleeping"], Ev("timeout", t),
                tasks_[t].initial_sleep_time)
  ELSE WaitDependencies(w, t)

\* The transfer lasts the dependent task's own network_time.
StartTransferOwnTime(w, t) ==
  Schedule([w EXCEPT !.pc[t] = "Transferring",
                     !.hist.xfer[t][Len(w.hist.xfer[t])].start = w.now],
           Ev("timeout", t), tasks_[t].network_time)

\* task_process: the link was granted; co_await sim.timeout(dep_task.network_time)
StartTransfer(w, t) ==
  Schedule([w EXCEPT !.pc[t] = "Transferring",
                     !.hist.xfer[t][Len(w.hist.xfer[t])].start = w.now],
           Ev("timeout", t), tasks_[CurrentDep(w, t)].network_time)

\* Records that task t releases a slot of resource `key`.
NoteRelease(w, t, key) ==
  [w EXCEPT !.hist.holding[t] = @ \ {key},
            !.hist.bad_release = @ \/ key \notin w.hist.holding[t]]

\* The link is kept when the transfer is over.
EndTransferNoRelease(w, t) ==
  WaitDependencies([w EXCEPT !.dep_pos[t] = @ + 1,
                             !.hist.passed[t] = Append(@, w.now)], t)

\* task_process: the transfer is over; link->release() and on to the next dependency
EndTransfer(w, t) ==
  LET dep_task == tasks_[CurrentDep(w, t)]
      link == <<dep_task.host_index, tasks_[t].host_index>>
      r == release(w.links[link])
      w1 == NoteRelease([w EXCEPT !.links[link] = r.res, !.hist.link_rel[t] = @ + 1,
                                  !.hist.xfer[t][Len(w.hist.xfer[t])].end = w.now],
                        t, LinkKey(link[1], link[2]))
      w2 == GrantSlots(w1, LinkKey(link[1], link[2]), r.fired)
  IN  WaitDependencies([w2 EXCEPT !.dep_pos[t] = @ + 1,
                                  !.hist.passed[t] = Append(@, w.now)], t)

\* Every execution is made to last at least one time unit.
StartExecutionAtLeastOne(w, t) ==
  Schedule([w EXCEPT !.pc[t] = "Running", !.hist.start_time[t] = w.now],
           Ev("timeout", t), IF tasks_[t].run_time > 0 THEN tasks_[t].run_time ELSE 1)

\* task_process, step 5: "Started execution", co_await sim.timeout(task.run_time)
StartExecution(w, t) ==
  Schedule([w EXCEPT !.pc[t] = "Running", !.hist.start_time[t] = w.now],
           Ev("timeout", t), tasks_[t].run_time)

\* The request is made but its event is not awaited: execution starts at once.
RequestCpuNoWait(w, t) ==
  LET h == tasks_[t].host_index
      r == request(w.cpu[h], Ev("cpu", t))
  IN  StartExecution(
        GrantSlots([w EXCEPT !.cpu[h] = r.res, !.hist.req_no = @ + 1,
                             !.hist.req_at[t] = w.hist.req_no + 1],
                   CpuKey(h), r.fired), t)

\* A task whose run_time is 0 asks for no core: it finishes at once and returns its RAM.
RequestCpuSkipZero(w, t) ==
  LET h == tasks_[t].host_index
      r == request(w.cpu[h], Ev("cpu", t))
      rp == put(w.ram[h], tasks_[t].ram, Ev("put", t), {})
  IN  IF tasks_[t].run_time = 0
      THEN GrantRam([w EXCEPT !.ram[h] = rp.c, !.pc[t] = "Releasing",
                              !.hist.start_time[t] = w.now,
                              !.hist.finish_time[t] = w.now], rp.fired)
      ELSE GrantSlots([w EXCEPT !.cpu[h] = r.res, !.pc[t] = "WaitingCpu",
                                !.hist.cpu_wait[t] = (r.fired = <<>>),
                                !.hist.req_no = @ + 1,
                                !.hist.req_at[t] = w.hist.req_no + 1],
                      CpuKey(h), r.fired)

\* task_process, step 4: auto cpu_req = host->cpu.request(); co_await cpu_req
RequestCpu(w, t) ==
  LET h == tasks_[t].host_index
      r == request(w.cpu[h], Ev("cpu", t))
  IN  GrantSlots([w EXCEPT !.cpu[h] = r.res, !.pc[t] = "WaitingCpu",
                           !.hist.cpu_wait[t] = (r.fired = <<>>),
                           !.hist.req_no = @ + 1,
                           !.hist.req_at[t] = w.hist.req_no + 1],
                 CpuKey(h), r.fired)

\* The CPU core is released twice.
FinishExecutionReleaseTwice(w, t) ==
  LET h == tasks_[t].host_index
      rc == release(w.cpu[h])
      w1 == NoteRelease([w EXCEPT !.cpu[h] = rc.res, !.hist.finish_time[t] = w.now],
                        t, CpuKey(h))
      w2 == GrantSlots(w1, CpuKey(h), rc.fired)
      rd == release(w2.cpu[h])
      w3 == GrantSlots([w2 EXCEPT !.cpu[h] = rd.res], CpuKey(h), rd.fired)
      rp == put(w3.ram[h], tasks_[t].ram, Ev("put", t), {})
  IN  IF rp.error THEN Throw(w3, t)
      ELSE GrantRam([w3 EXCEPT !.ram[h] = rp.c, !.pc[t] = "Releasing"], rp.fired)

\* The core is released but the RAM is not given back: the process goes on as if
\* its put had been granted.
FinishExecutionNoPut(w, t) ==
  LET h == tasks_[t].host_index
      rc == release(w.cpu[h])
      w1 == NoteRelease([w EXCEPT !.cpu[h] = rc.res, !.hist.finish_time[t] = w.now,
                                  !.hist.cpu_rel[t] = w.now],
                        t, CpuKey(h))
      w2 == GrantSlots(w1, CpuKey(h), rc.fired)
  IN  Schedule([w2 EXCEPT !.pc[t] = "Releasing"], Ev("put", t), 0)

\* The task puts back the whole RAM capacity of its host instead of its own ram.
FinishExecutionPutCapacity(w, t) ==
  LET h == tasks_[t].host_index
      rc == release(w.cpu[h])
      w1 == NoteRelease([w EXCEPT !.cpu[h] = rc.res, !.hist.finish_time[t] = w.now,
                                  !.hist.cpu_rel[t] = w.now],
                        t, CpuKey(h))
      w2 == GrantSlots(w1, CpuKey(h), rc.fired)
      rp == put(w2.ram[h], w2.ram[h].capacity, Ev("put", t), {})
  IN  IF rp.error THEN Throw(w2, t)
      ELSE GrantRam([w2 EXCEPT !.ram[h] = rp.c, !.pc[t] = "Releasing"], rp.fired)

\* The CPU core is never released.
FinishExecutionNoRelease(w, t) ==
  LET h == tasks_[t].host_index
      w2 == [w EXCEPT !.hist.finish_time[t] = w.now]
      rp == put(w2.ram[h], tasks_[t].ram, Ev("put", t), {})
  IN  IF rp.error THEN Throw(w2, t)
      ELSE GrantRam([w2 EXCEPT !.ram[h] = rp.c, !.pc[t] = "Releasing"], rp.fired)

\* task_process, step 6: "Finished execution", cpu.release(), co_await ram.put(task.ram)
FinishExecution(w, t) ==
  LET h == tasks_[t].host_index
      rc == release(w.cpu[h])
      w1 == NoteRelease([w EXCEPT !.cpu[h] = rc.res, !.hist.finish_time[t] = w.now,
                                  !.hist.cpu_rel[t] = w.now],
                        t, CpuKey(h))
      w2 == GrantSlots(w1, CpuKey(h), rc.fired)
      rp == put(w2.ram[h], tasks_[t].ram, Ev("put", t), {})
  IN  IF rp.error THEN Throw(w2, t)
      ELSE GrantRam([w2 EXCEPT !.ram[h] = rp.c, !.pc[t] = "Releasing"], rp.fired)

\* event::trigger of a completion signal: pending -> triggered, scheduled at now.
\* Every call is counted, with the process that made it.
TriggerCompleted(w, d, by) ==
  LET w1 == [w EXCEPT !.hist.trig_by[d] = @ \cup {by}, !.hist.trig_count[d] = @ + 1] IN
  IF w.completed[d] = "pending"
  THEN Schedule([w1 EXCEPT !.completed[d] = "triggered",
                           !.hist.trig_at[Ev("completed", d)] = w.now],
                Ev("completed", d), 0)
  ELSE w1

\* The completion signal of the first task is triggered instead of the task's own.
MarkCompletedFirst(w, t) ==
  TriggerCompleted([w EXCEPT !.pc[t] = "Done"], 1, t)

\* The process ends without triggering its completion signal.
MarkCompletedSilent(w, t) ==
  [w EXCEPT !.pc[t] = "Done"]

\* task_process, step 7: task_completed[task_index].trigger(), end of the coroutine
MarkCompleted(w, t) ==
  TriggerCompleted([w EXCEPT !.pc[t] = "Done"], t, t)

\* The process of task t continues from the co_await it is suspended at.
Resume(w, t) ==
  CASE w.pc[t] = "Created"      -> InitialSleep(w, t)
    [] w.pc[t] = "Sleeping"     -> WaitDependencies(w, t)
    [] w.pc[t] = "WaitingDeps"  -> AfterDependency(w, t)
    [] w.pc[t] = "WaitingLink"  -> StartTransfer(w, t)
    [] w.pc[t] = "Transferring" -> EndTransfer(w, t)
    [] w.pc[t] = "WaitingRam"   -> RequestCpu(w, t)
    [] w.pc[t] = "WaitingCpu"   -> StartExecution(w, t)
    [] w.pc[t] = "Running"      -> FinishExecution(w, t)
    [] w.pc[t] = "Releasing"    -> MarkCompleted(w, t)
    [] OTHER                    -> w

\* event::process of a completion signal: its subscribers resume in subscription order.
RECURSIVE ResumeAll(_, _)
ResumeAll(w, ts) ==
  IF ts = <<>> \/ w.status = "error" THEN w
  ELSE ResumeAll(Resume(w, Head(ts)), Tail(ts))

\* simulation::step: pop the least entry, advance now, process the event.
ProcessEvent(w, e) ==
  LET w1 == [w EXCEPT !.now = e.time, !.heap = @ \ {e},
                      !.hist.prev = w.hist.last, !.hist.last = e] IN
  IF e.ev.kind = "completed"
  THEN ResumeAll([w1 EXCEPT !.completed[e.ev.task] = "processed",
                            !.subs[e.ev.task] = <<>>],
                 w.subs[e.ev.task])
  ELSE Resume(w1, e.ev.task)

\* ------------------------------------------------------ TaskSimulator (driver)
Max(S) == CHOOSE x \in S : \A y \in S : y <= x

\* task_name_to_index[task.name] = task.index: a later task of the same name wins.
\* 0 stands for "not in the map".
NameToIndex(ts, n) ==
  LET same == {i \in DOMAIN ts : ts[i].name = n}
  IN  IF same = {} THEN 0 ELSE ts[Max(same)].index

\* The map is read with operator[]: a name that is not in it is inserted with the
\* value-initialised index, the first position.
ResolveDependenciesDefault(ts, deps) ==
  [k \in 1..Len(deps) |-> IF NameToIndex(ts, deps[k]) = 0 THEN 1 ELSE NameToIndex(ts, deps[k])]

\* The constructor's dependency resolution: names not in the map are skipped.
ResolveDependencies(ts, deps) ==
  LET found == SelectSeq(deps, LAMBDA n : NameToIndex(ts, n) # 0)
  IN  [k \in 1..Len(found) |-> NameToIndex(ts, found[k])]

\* No validation: an unknown host name falls back to the first host.
ValidateHostsLenient(ts, cfg) ==
  [error |-> FALSE,
   tasks |-> [i \in DOMAIN ts |->
                [ts[i] EXCEPT !.host_index = IF ts[i].host \in DOMAIN cfg THEN ts[i].host ELSE 1]]]

\* The constructor's host validation: error = TRUE is the std::runtime_error
\* "references unknown host"; otherwise every task gets its host_index.
ValidateHosts(ts, cfg) ==
  IF \E i \in DOMAIN ts : ts[i].host \notin DOMAIN cfg
  THEN [error |-> TRUE, tasks |-> ts]
  ELSE [error |-> FALSE, tasks |-> [i \in DOMAIN ts |-> [ts[i] EXCEPT !.host_index = ts[i].host]]]

\* Every link is created with two slots.
NetworkLinkTwoSlots(num_hosts) ==
  [key \in {<<from_idx, to_idx>> \in (1..num_hosts) \X (1..num_hosts) : from_idx # to_idx}
     |-> [capacity |-> 2, in_use |-> 0, waiters |-> <<>>]]

\* A link is created for every ordered pair of hosts, a host paired with itself included.
NetworkLinkAllPairs(num_hosts) ==
  [key \in (1..num_hosts) \X (1..num_hosts)
     |-> [capacity |-> 1, in_use |-> 0, waiters |-> <<>>]]

\* NetworkLink::NetworkLink: one capacity-1 resource per ordered pair of distinct hosts.
NetworkLink(num_hosts) ==
  [key \in {<<from_idx, to_idx>> \in (1..num_hosts) \X (1..num_hosts) : from_idx # to_idx}
     |-> [capacity |-> 1, in_use |-> 0, waiters |-> <<>>]]

\* The CPU resource is created with one slot more than the host has cores.
HostCpuExtraCore(cfg) == [capacity |-> cfg.cpu_cores + 1, in_use |-> 0, waiters |-> <<>>]

\* Host::Host: cpu(sim, cpu_cores), ram(sim, ram_capacity, ram_capacity)
HostCpu(cfg) == [capacity |-> cfg.cpu_cores, in_use |-> 0, waiters |-> <<>>]
HostRam(cfg) == container(cfg.ram, cfg.ram)

\* The events that are triggered by a process (a grant, a completion), as opposed
\* to timeouts and process starts.
TriggeredKinds == {"link", "get", "cpu", "put", "completed"}
TriggeredEvents == {Ev(k, t) : k \in TriggeredKinds, t \in TaskIds}

\* No event has been processed.
NoEntry == [time |-> 0, id |-> 0, ev |-> Ev("none", 0)]

\* No call of get_link from outside a task process has been made.
NoLinkCall == [from |-> 0, to |-> 0, error |-> FALSE, link |-> <<>>, before |-> <<>>]

NoHist ==
  [start_time |-> [t \in TaskIds |-> -1], finish_time |-> [t \in TaskIds |-> -1],
   trig_count |-> [t \in TaskIds |-> 0], trig_by |-> [t \in TaskIds |-> {}],
   holding |-> [t \in TaskIds |-> {}], ram_state |-> [t \in TaskIds |-> "none"],
   bad_release |-> FALSE, req_no |-> 0, req_at |-> [t \in TaskIds |-> 0],
   get_no |-> 0, get_at |-> [t \in TaskIds |-> 0],
   ready_time |-> [t \in TaskIds |-> -1], ram_at |-> [t \in TaskIds |-> -1],
   cpu_wait |-> [t \in TaskIds |-> FALSE],
   link_req |-> [t \in TaskIds |-> <<>>], link_rel |-> [t \in TaskIds |-> 0],
   xfer |-> [t \in TaskIds |-> <<>>], passed |-> [t \in TaskIds |-> <<>>],
   cpu_at |-> [t \in TaskIds |-> -1], cpu_rel |-> [t \in TaskIds |-> -1],
   link_call |-> NoLinkCall, num_hosts |-> 0,
   last |-> NoEntry, prev |-> NoEntry, trig_at |-> [e \in TriggeredEvents |-> -1]]

NoContainerHist == [fired |-> <<>>, last |-> [op |-> "none", amount |-> 0, error |-> FALSE,
                                              before |-> container(0, 0), granted |-> <<>>,
                                              aborted |-> {}]]

\* No call of parse_tasks_csv is in progress.
NoCsv == [lines |-> <<>>, row_num |-> 0, headers |-> <<>>, tasks |-> <<>>, state |-> "none"]

InitSimulator ==
  /\ \E x \in Experiments : hosts_cfg = x.hosts /\ tasks_ = x.tasks
  /\ status = "new"
  /\ cont = container(0, 0)

InitContainer ==
  /\ hosts_cfg = BaseCpu.hosts /\ tasks_ = BaseCpu.tasks
  /\ status = "container"
  /\ \E capacity \in 1..RamCap : \E init \in 0..capacity : cont = container(capacity, init)

InitNetwork ==
  /\ hosts_cfg = BaseCpu.hosts /\ tasks_ = BaseCpu.tasks
  /\ status = "network"
  /\ cont = container(0, 0)

Init ==
  /\ InitSimulator \/ InitContainer \/ InitNetwork
  /\ now = 0 /\ heap = {} /\ next_id = 1
  /\ pc = [t \in TaskIds |-> "NotStarted"]
  /\ dep_pos = [t \in TaskIds |-> 1]
  /\ completed = [t \in TaskIds |-> "pending"]
  /\ subs = [t \in TaskIds |-> <<>>]
  /\ cpu = << >> /\ links = << >> /\ ram = << >>
  /\ hist = NoHist
  /\ c_aborted = {} /\ c_calls = 0 /\ c_hist = NoContainerHist
  /\ csv = NoCsv

containerVars == <<cont, c_aborted, c_calls, c_hist>>
simVars == <<status, now, heap, next_id, pc, dep_pos, completed, subs, cpu, links, ram, hist>>

\* TaskSimulator::TaskSimulator(config, tasks)
TaskSimulator ==
  /\ status = "new"
  /\ LET resolved == [i \in DOMAIN tasks_ |->
                        [tasks_[i] EXCEPT !.dependency_indices =
                                             ResolveDependencies(tasks_, tasks_[i].dependencies)]]
         v == ValidateHosts(resolved, hosts_cfg)
     IN  IF v.error
         THEN /\ status' = "ctor_error"
              /\ UNCHANGED <<tasks_, cpu, ram, links>>
         ELSE /\ status' = "constructed"
              /\ tasks_' = v.tasks
              /\ cpu' = [h \in DOMAIN hosts_cfg |-> HostCpu(hosts_cfg[h])]
              /\ ram' = [h \in DOMAIN hosts_cfg |-> HostRam(hosts_cfg[h])]
              /\ links' = NetworkLink(Cardinality(DOMAIN hosts_cfg))
  /\ UNCHANGED <<hosts_cfg, now, heap, next_id, pc, dep_pos, completed, subs, hist>>
  /\ UNCHANGED containerVars
  /\ UNCHANGED csv

\* run(): task_process(...) for i = 0 .. size-1; each coroutine is suspended at its
\* initial event, scheduled at the current time in task list order.
RECURSIVE StartProcesses(_, _)
StartProcesses(w, i) ==
  IF i > Len(tasks_) THEN w
  ELSE StartProcesses(Schedule([w EXCEPT !.pc[i] = "Created"], Ev("start", i), 0), i + 1)

run_start ==
  /\ status = "constructed"
  /\ Commit(StartProcesses([World EXCEPT !.status = "running"], 1))
  /\ UNCHANGED <<hosts_cfg, tasks_>>
  /\ UNCHANGED containerVars
  /\ UNCHANGED csv

\* sim_.run(): one iteration of the event loop, for an event of the given kinds.
Step(kinds) ==
  /\ status = "running"
  /\ heap # {}
  /\ MinEntry(heap).ev.kind \in kinds
  /\ Commit(ProcessEvent(World, MinEntry(heap)))
  /\ UNCHANGED <<hosts_cfg, tasks_>>
  /\ UNCHANGED containerVars
  /\ UNCHANGED csv

ProcessStart == Step({"start"})
ProcessTimeout == Step({"timeout"})
ProcessGrant == Step({"link", "get", "cpu", "put"})
ProcessCompleted == Step({"completed"})

\* sim_.run() returns when the event queue is empty; run() then reports the metrics.
run_return ==
  /\ status = "running"
  /\ heap = {}
  /\ status' = "returned"
  /\ UNCHANGED <<hosts_cfg, tasks_, now, heap, next_id, pc, dep_pos, completed, subs,
                 cpu, links, ram, hist>>
  /\ UNCHANGED containerVars
  /\ UNCHANGED csv

\* ------------------------------------------- parsers::validate_task_dependencies
\* The validator reads one optional dependency per task (task.dependency).
has_dependency(task) == task.dependencies # <<>>
dependency(task) == task.dependencies[1]

\* task_dict[task.name] = task: a later task of the same name replaces an earlier one.
task_dict(ts, n) == ts[Max({i \in DOMAIN ts : ts[i].name = n})]

task_names(ts) == {ts[i].name : i \in DOMAIN ts}

\* A dependency that was visited before is reported as a cycle, whether or not it
\* is on the recursion stack.
RECURSIVE has_cycle_visited_only(_, _, _, _)
has_cycle_visited_only(ts, task_name, visited, rec_stack) ==
  LET v1 == visited \cup {task_name}
      r1 == rec_stack \cup {task_name}
      task == task_dict(ts, task_name)
      done == [cycle |-> FALSE, visited |-> v1, rec_stack |-> r1 \ {task_name}]
  IN  IF ~has_dependency(task) THEN done
      ELSE IF dependency(task) \notin v1
           THEN LET r == has_cycle_visited_only(ts, dependency(task), v1, r1) IN
                IF r.cycle THEN r
                ELSE [cycle |-> FALSE, visited |-> r.visited,
                      rec_stack |-> r.rec_stack \ {task_name}]
           ELSE [cycle |-> TRUE, visited |-> v1, rec_stack |-> r1]

\* has_cycle: depth-first search with the set of visited names and the recursion stack.
RECURSIVE has_cycle(_, _, _, _)
has_cycle(ts, task_name, visited, rec_stack) ==
  LET v1 == visited \cup {task_name}
      r1 == rec_stack \cup {task_name}
      task == task_dict(ts, task_name)
      done == [cycle |-> FALSE, visited |-> v1, rec_stack |-> r1 \ {task_name}]
  IN  IF ~has_dependency(task) THEN done
      ELSE IF dependency(task) \notin v1
           THEN LET r == has_cycle(ts, dependency(task), v1, r1) IN
                IF r.cycle THEN r
                ELSE [cycle |-> FALSE, visited |-> r.visited,
                      rec_stack |-> r.rec_stack \ {task_name}]
           ELSE IF dependency(task) \in r1
                THEN [cycle |-> TRUE, visited |-> v1, rec_stack |-> r1]
                ELSE done

\* The loop over the tasks from position i on: a search from every task not yet
\* visited, each with a fresh recursion stack.  TRUE: a cycle was reported.
RECURSIVE CycleFrom(_, _, _)
CycleFrom(ts, i, visited) ==
  IF i > Len(ts) THEN FALSE
  ELSE IF ts[i].name \in visited THEN CycleFrom(ts, i + 1, visited)
       ELSE LET r == has_cycle(ts, ts[i].name, visited, {}) IN
            r.cycle \/ CycleFrom(ts, i + 1, r.visited)

\* validate_task_dependencies: "ok", or the error it throws.
validate_task_dependencies(ts) ==
  IF \E i \in DOMAIN ts : has_dependency(ts[i]) /\ dependency(ts[i]) \notin task_names(ts)
  THEN "undefined dependency"
  ELSE IF CycleFrom(ts, 1, {}) THEN "circular dependency"
       ELSE "ok"

\* The task list as read from the CSV file is validated (every row holds at most
\* one dependency).
ValidateTasks ==
  /\ status = "new"
  /\ \A i \in DOMAIN tasks_ : Len(tasks_[i].dependencies) <= 1
  /\ status' = IF validate_task_dependencies(tasks_) = "ok" THEN "validated"
               ELSE "validation_error"
  /\ UNCHANGED <<hosts_cfg, tasks_, now, heap, next_id, pc, dep_pos, completed, subs,
                 cpu, links, ram, hist>>
  /\ UNCHANGED containerVars
  /\ UNCHANGED csv

\* ------------------------------------------------------ parsers::parse_tasks_csv
\* A line of the file is a sequence of characters.  A column name, a task name and
\* a host name each count as one character; "," separates fields, " " is whitespace.
MaxRows == 2
MaxText == 2

Whitespace == {" "}
Digits == {"0", "1"}
DigitValue(c) == IF c = "1" THEN 1 ELSE 0

Range(s) == {s[k] : k \in DOMAIN s}
Least(S) == CHOOSE x \in S : \A y \in S : x <= y

\* trim: the text from its first to its last character that is not whitespace.
trim(str) ==
  LET keep == {k \in DOMAIN str : str[k] \notin Whitespace} IN
  IF keep = {} THEN <<>> ELSE SubSeq(str, Least(keep), Max(keep))

\* while (std::getline(line_stream, field, ',')) fields.push_back(trim(field)):
\* nothing is read from an exhausted stream, so no field follows a final comma.
RECURSIVE getline_fields(_)
getline_fields(rest) ==
  IF rest = <<>> THEN <<>>
  ELSE LET commas == {k \in DOMAIN rest : rest[k] = ","} IN
       IF commas = {} THEN <<trim(rest)>>
       ELSE <<trim(SubSeq(rest, 1, Least(commas) - 1))>>
            \o getline_fields(SubSeq(rest, Least(commas) + 1, Len(rest)))

\* parse_csv_line: the trimmed fields; a trailing comma adds an empty last field.
parse_csv_line(line) ==
  LET fields == getline_fields(line) IN
  IF line # <<>> /\ line[Len(line)] = "," THEN Append(fields, <<>>) ELSE fields

RECURSIVE digits_value(_, _)
digits_value(str, acc) ==
  IF str = <<>> THEN acc
  ELSE IF Head(str) \notin Digits THEN acc
       ELSE digits_value(Tail(str), 10 * acc + DigitValue(Head(str)))

\* std::stoi: leading whitespace is skipped, then an optional sign, then the digits
\* up to the first other character.  error = TRUE is std::invalid_argument (no
\* digit); std::out_of_range needs more digits than the texts explored here have.
stoi(str) ==
  LET keep == {k \in DOMAIN str : str[k] \notin Whitespace}
      s1 == IF keep = {} THEN <<>> ELSE SubSeq(str, Least(keep), Len(str))
      has_sign == s1 # <<>> /\ Head(s1) \in {"-", "+"}
      negative == s1 # <<>> /\ Head(s1) = "-"
      s2 == IF has_sign THEN Tail(s1) ELSE s1
  IN  IF s2 = <<>> THEN [error |-> TRUE, value |-> 0]
      ELSE IF Head(s2) \notin Digits THEN [error |-> TRUE, value |-> 0]
           ELSE [error |-> FALSE,
                 value |-> IF negative THEN 0 - digits_value(s2, 0) ELSE digits_value(s2, 0)]

\* Task::validate without the test of ram.
validate_no_ram(task) ==
  \/ task.initial_sleep_time < 0
  \/ task.run_time < 0
  \/ task.network_time < 0

\* Task::validate: TRUE where it throws std::invalid_argument.
validate(task) ==
  \/ task.initial_sleep_time < 0
  \/ task.run_time < 0
  \/ task.ram < 0
  \/ task.network_time < 0

ColumnNames == <<"TASK_NAME", "TASK_HOST", "TASK_INITIAL_SLEEP_TIME", "TASK_RUN_TIME",
                 "TASK_RAM", "TASK_NETWORK_TIME", "TASK_DEPENDENCY">>

expected_headers == {<<ColumnNames[k]>> : k \in DOMAIN ColumnNames}

\* header_index[headers[i]] = i for i = 0 .. size-1: the last column of a name wins.
header_index(headers, h) == Max({i \in DOMAIN headers : headers[i] = <<h>>})

NoTask == [name |-> <<>>, host |-> <<>>, initial_sleep_time |-> 0, run_time |-> 0,
           ram |-> 0, network_time |-> 0, dependencies |-> <<>>]

\* One iteration of the loop over the rows: the task of the row, or error = TRUE
\* for the std::runtime_error the row ends in.
parse_row(headers, line) ==
  LET fields == parse_csv_line(line)
      field(h) == fields[header_index(headers, h)]
      initial_sleep_time == stoi(field("TASK_INITIAL_SLEEP_TIME"))
      run_time == stoi(field("TASK_RUN_TIME"))
      ram_ == stoi(field("TASK_RAM"))
      network_time == stoi(field("TASK_NETWORK_TIME"))
      dependency_str == field("TASK_DEPENDENCY")
      task == [name |-> field("TASK_NAME"), host |-> field("TASK_HOST"),
               initial_sleep_time |-> initial_sleep_time.value,
               run_time |-> run_time.value, ram |-> ram_.value,
               network_time |-> network_time.value,
               dependencies |-> IF dependency_str = <<>> THEN <<>> ELSE <<dependency_str>>]
      failed == [error |-> TRUE, task |-> NoTask]
  IN  IF Len(fields) # Len(headers) THEN failed
      ELSE IF field("TASK_NAME") = <<>> THEN failed
      ELSE IF initial_sleep_time.error \/ run_time.error \/ ram_.error \/ network_time.error
           THEN failed
      ELSE IF validate(task) THEN failed
      ELSE [error |-> FALSE, task |-> task]

\* ---- the files explored
HeaderNames == Range(ColumnNames) \cup {"EXTRA"}

Reverse(s) == [k \in DOMAIN s |-> s[Len(s) + 1 - k]]
Rotate(s) == Tail(s) \o <<Head(s)>>

HeaderBases == {ColumnNames, Reverse(ColumnNames), Rotate(ColumnNames)}

\* A header and every header one column away from it: a column dropped, a column
\* inserted, a column renamed.
HeaderEdits(h) ==
  {h}
  \cup {SubSeq(h, 1, p - 1) \o SubSeq(h, p + 1, Len(h)) : p \in DOMAIN h}
  \cup {SubSeq(h, 1, p) \o <<n>> \o SubSeq(h, p + 1, Len(h)) : p \in 0..Len(h), n \in HeaderNames}
  \cup {[h EXCEPT ![p] = n] : p \in DOMAIN h, n \in HeaderNames}

Headers == UNION {HeaderEdits(h) : h \in HeaderBases}

\* The fields joined by commas, each comma followed by `pad`.
RECURSIVE Join(_, _)
Join(fields, pad) ==
  IF fields = <<>> THEN <<>>
  ELSE IF Len(fields) = 1 THEN fields[1]
       ELSE fields[1] \o <<",">> \o pad \o Join(Tail(fields), pad)

Pads == {<<>>, <<" ">>}

HeaderLine(h, pad) == Join([k \in DOMAIN h |-> <<h[k]>>], pad)

RECURSIVE Texts(_)
Texts(n) ==
  IF n = 0 THEN {<<>>}
  ELSE Texts(n - 1) \cup {Append(t, c) : t \in Texts(n - 1), c \in {"-", "0", "1", "x"}}

NumericColumns == {"TASK_INITIAL_SLEEP_TIME", "TASK_RUN_TIME", "TASK_RAM", "TASK_NETWORK_TIME"}

BaseRow == [n \in HeaderNames |->
              CASE n = "TASK_NAME" -> <<"T1">>
                [] n = "TASK_HOST" -> <<"H1">>
                [] n \in NumericColumns -> <<"1">>
                [] n = "TASK_DEPENDENCY" -> <<>>
                [] OTHER -> <<"x">>]

\* The base row with up to two numeric fields changed, or without a name, or
\* with a dependency.
Rows ==
  {[[BaseRow EXCEPT ![a] = u] EXCEPT ![b] = v] :
      a \in NumericColumns, b \in NumericColumns, u \in Texts(MaxText), v \in Texts(MaxText)}
  \cup {[BaseRow EXCEPT !["TASK_NAME"] = <<>>], [BaseRow EXCEPT !["TASK_DEPENDENCY"] = <<"T1">>]}

RowLine(h, row, pad) == Join([k \in DOMAIN h |-> row[h[k]]], pad)

\* Files: no line at all; every header with base rows; the base headers with one
\* row of the explored ones among base rows, or with a row of one field too many.
CsvFiles ==
  {<<>>}
  \cup {<<HeaderLine(h, pad)>> \o [k \in 1..n |-> RowLine(h, BaseRow, pad)] :
          h \in Headers, pad \in Pads, n \in 0..MaxRows}
  \cup UNION {{<<HeaderLine(h, <<>>)>>
                 \o [k \in 1..n |-> RowLine(h, IF k = j THEN r ELSE BaseRow, <<>>)] :
                   j \in 1..n, r \in Rows} : h \in HeaderBases, n \in 1..MaxRows}
  \cup {<<HeaderLine(h, <<>>), RowLine(h, BaseRow, <<>>) \o <<",", "1">>>> : h \in HeaderBases}

InitCsv ==
  /\ hosts_cfg = BaseCpu.hosts /\ tasks_ = BaseCpu.tasks
  /\ status = "csv"
  /\ now = 0 /\ heap = {} /\ next_id = 1
  /\ pc = [t \in TaskIds |-> "NotStarted"]
  /\ dep_pos = [t \in TaskIds |-> 1]
  /\ completed = [t \in TaskIds |-> "pending"]
  /\ subs = [t \in TaskIds |-> <<>>]
  /\ cpu = << >> /\ links = << >> /\ ram = << >>
  /\ hist = NoHist
  /\ cont = container(0, 0)
  /\ c_aborted = {} /\ c_calls = 0 /\ c_hist = NoContainerHist
  /\ \E f \in CsvFiles : csv = [NoCsv EXCEPT !.lines = f, !.row_num = 1, !.state = "open"]

\* parse_tasks_csv up to the loop over the rows: the header is read and validated.
parse_tasks_csv_header ==
  /\ status = "csv" /\ csv.state = "open"
  /\ IF csv.lines = <<>> THEN csv' = [csv EXCEPT !.state = "error"]
     ELSE LET headers == parse_csv_line(csv.lines[1])
              actual_headers == Range(headers)
          IN  IF actual_headers # expected_headers
              THEN csv' = [csv EXCEPT !.state = "error"]
              ELSE csv' = [csv EXCEPT !.headers = headers, !.state = "rows"]
  /\ UNCHANGED <<hosts_cfg, tasks_>>
  /\ UNCHANGED simVars
  /\ UNCHANGED containerVars

\* parse_tasks_csv: one row is read; an error in it ends the call, no task is returned.
parse_tasks_csv_row ==
  /\ status = "csv" /\ csv.state = "rows"
  /\ csv.row_num < Len(csv.lines)
  /\ LET r == parse_row(csv.headers, csv.lines[csv.row_num + 1]) IN
     IF r.error
     THEN csv' = [csv EXCEPT !.row_num = @ + 1, !.state = "error", !.tasks = <<>>]
     ELSE csv' = [csv EXCEPT !.row_num = @ + 1, !.tasks = Append(@, r.task)]
  /\ UNCHANGED <<hosts_cfg, tasks_>>
  /\ UNCHANGED simVars
  /\ UNCHANGED containerVars

\* parse_tasks_csv: no line is left, return tasks.
parse_tasks_csv_return ==
  /\ status = "csv" /\ csv.state = "rows"
  /\ csv.row_num >= Len(csv.lines)
  /\ csv' = [csv EXCEPT !.state = "returned"]
  /\ UNCHANGED <<hosts_cfg, tasks_>>
  /\ UNCHANGED simVars
  /\ UNCHANGED containerVars

NextCsv ==
  \/ parse_tasks_csv_header
  \/ parse_tasks_csv_row
  \/ parse_tasks_csv_return

SpecCsv == InitCsv /\ [][NextCsv]_vars

\* ----------------------------------------- calls on a stand-alone NetworkLink
\* get_link with operator[] in place of find: a missing key is inserted and returned.
get_link_call_insert(lk, from_host_index, to_host_index) ==
  LET key == <<from_host_index, to_host_index>>
      slot == [capacity |-> 1, in_use |-> 0, waiters |-> <<>>]
  IN  [error |-> FALSE, link |-> key,
       links |-> [k \in DOMAIN lk \cup {key} |-> IF k \in DOMAIN lk THEN lk[k] ELSE slot]]

\* A call of NetworkLink::get_link: the outcome and the map after the call.
get_link_call(lk, from_host_index, to_host_index) ==
  LET key == get_link(lk, from_host_index, to_host_index)
  IN  [error |-> key = <<>>, link |-> key, links |-> lk]

\* NetworkLink network(sim, num_hosts)
NetworkLinkNew ==
  /\ status = "network"
  /\ \E num_hosts \in 0..MaxLinkHosts :
       /\ links' = NetworkLink(num_hosts)
       /\ hist' = [hist EXCEPT !.num_hosts = num_hosts]
  /\ status' = "network_ready"
  /\ UNCHANGED <<hosts_cfg, tasks_, now, heap, next_id, pc, dep_pos, completed, subs,
                 cpu, ram>>
  /\ UNCHANGED containerVars
  /\ UNCHANGED csv

\* network.get_link(from, to) for host indices inside and outside the fabric
NetworkGetLink ==
  /\ status = "network_ready"
  /\ \E from \in 1..(MaxLinkHosts + 1), to \in 1..(MaxLinkHosts + 1) :
       LET r == get_link_call(links, from, to) IN
       /\ links' = r.links
       /\ hist' = [hist EXCEPT !.link_call = [from |-> from, to |-> to, error |-> r.error,
                                               link |-> r.link, before |-> links]]
  /\ UNCHANGED <<hosts_cfg, tasks_, status, now, heap, next_id, pc, dep_pos, completed,
                 subs, cpu, ram>>
  /\ UNCHANGED containerVars
  /\ UNCHANGED csv

\* ------------------------------------------- calls on the stand-alone container
ContainerGet ==
  /\ status = "container"
  /\ c_calls < MaxCalls
  /\ \E amount \in 0..(cont.capacity + 1) :
       LET r == get(cont, amount, Ev("get", c_calls + 1), c_aborted) IN
       /\ cont' = r.c
       /\ c_hist' = [fired |-> c_hist.fired \o r.fired,
                     last |-> [op |-> "get", amount |-> amount, error |-> r.error,
                               before |-> cont, granted |-> r.fired,
                               aborted |-> c_aborted]]
  /\ c_calls' = c_calls + 1
  /\ UNCHANGED <<hosts_cfg, tasks_, c_aborted>>
  /\ UNCHANGED simVars
  /\ UNCHANGED csv

ContainerPut ==
  /\ status = "container"
  /\ c_calls < MaxCalls
  /\ \E amount \in 0..(cont.capacity + 1) :
       LET r == put(cont, amount, Ev("put", c_calls + 1), c_aborted) IN
       /\ cont' = r.c
       /\ c_hist' = [fired |-> c_hist.fired \o r.fired,
                     last |-> [op |-> "put", amount |-> amount, error |-> r.error,
                               before |-> cont, granted |-> r.fired,
                               aborted |-> c_aborted]]
  /\ c_calls' = c_calls + 1
  /\ UNCHANGED <<hosts_cfg, tasks_, c_aborted>>
  /\ UNCHANGED simVars
  /\ UNCHANGED csv

Waiting(c) == {c.get_queue[k].ev : k \in DOMAIN c.get_queue}
              \cup {c.put_queue[k].ev : k \in DOMAIN c.put_queue}

\* event::abort on the event of a request that is still waiting.
ContainerAbort ==
  /\ status = "container"
  /\ \E ev \in Waiting(cont) \ c_aborted : c_aborted' = c_aborted \cup {ev}
  /\ UNCHANGED <<hosts_cfg, tasks_, cont, c_calls, c_hist>>
  /\ UNCHANGED simVars
  /\ UNCHANGED csv

Next ==
  \/ ValidateTasks
  \/ TaskSimulator
  \/ run_start
  \/ ProcessStart
  \/ ProcessTimeout
  \/ ProcessGrant
  \/ ProcessCompleted
  \/ run_return
  \/ ContainerGet
  \/ ContainerPut
  \/ ContainerAbort
  \/ NetworkLinkNew
  \/ NetworkGetLink

Spec == Init /\ [][Next]_vars

TypeOK ==
  /\ status \in {"new", "validated", "validation_error", "ctor_error", "constructed",
                 "running", "returned", "error", "container", "csv",
                 "network", "network_ready"}
  /\ now \in Nat

\* ------------------------------------------------- run(): the statistics pass
RECURSIVE SumOver(_, _)
SumOver(f, S) ==
  IF S = {} THEN 0
  ELSE LET x == CHOOSE y \in S : TRUE IN f[x] + SumOver(f, S \ {x})

\* for (task : tasks_) total_cpu_work += task.run_time
total_cpu_work == SumOver([i \in DOMAIN tasks_ |-> tasks_[i].run_time], DOMAIN tasks_)

\* for (host : hosts_) total_cpu_cores += host->cpu_cores
total_cpu_cores == SumOver([h \in DOMAIN cpu |-> cpu[h].capacity], DOMAIN cpu)

\* simulation_time = sim_.now()
simulation_time == now

total_cpu_time_available == total_cpu_cores * simulation_time

idle_time == total_cpu_time_available - total_cpu_work

\* ------------------------------------------------------------- properties
AllHostsKnown == \A i \in DOMAIN tasks_ : tasks_[i].host \in DOMAIN hosts_cfg

\* The tasks a task waits for: the names of its dependency list that are task names.
DepsOf(i) ==
  {NameToIndex(tasks_, tasks_[i].dependencies[k]) : k \in DOMAIN tasks_[i].dependencies} \ {0}

RECURSIVE ReachableFrom(_, _)
ReachableFrom(S, n) ==
  IF n = 0 THEN S
  ELSE ReachableFrom(S \cup UNION {DepsOf(i) : i \in S}, n - 1)

Acyclic == \A i \in DOMAIN tasks_ : i \notin ReachableFrom(DepsOf(i), Len(tasks_))

RamFits == \A i \in DOMAIN tasks_ :
             tasks_[i].host \in DOMAIN hosts_cfg => tasks_[i].ram <= hosts_cfg[tasks_[i].host].ram

AllDone == \A t \in DOMAIN tasks_ : pc[t] = "Done"

\* C1: the level of every container (the stand-alone one and every host's RAM)
\* is within 0 .. capacity in every reachable state.
C1_LevelInBounds ==
  /\ 0 <= cont.level /\ cont.level <= cont.capacity
  /\ \A h \in DOMAIN ram : 0 <= ram[h].level /\ ram[h].level <= ram[h].capacity

C1_Witness ==
  \/ \E h \in DOMAIN ram : ram[h].level = 0 /\ ram[h].get_queue # <<>>
                            /\ \E t \in DOMAIN tasks_ : hist.ram_state[t] = "returned"
  \/ cont.level = cont.capacity /\ cont.put_queue # <<>> /\ c_hist.fired # <<>>

Holders(key) == {t \in DOMAIN tasks_ : key \in hist.holding[t]}

\* C2: every CPU has 0 <= in_use <= cpu_cores and every link 0 <= in_use <= 1; the
\* slots in use are exactly the slots granted to tasks that have not released them,
\* and no task releases a slot it was not granted.
C2_InUseInBounds ==
  /\ \A h \in DOMAIN cpu :
       /\ 0 <= cpu[h].in_use /\ cpu[h].in_use <= hosts_cfg[h].cpu_cores
       /\ cpu[h].in_use = Cardinality(Holders(CpuKey(h)))
  /\ \A k \in DOMAIN links :
       /\ 0 <= links[k].in_use /\ links[k].in_use <= 1
       /\ links[k].in_use = Cardinality(Holders(LinkKey(k[1], k[2])))
  /\ ~hist.bad_release

C2_Witness ==
  /\ \E k \in DOMAIN links : links[k].in_use = 1 /\ links[k].waiters # <<>>
  /\ \E t \in DOMAIN tasks_ : hist.finish_time[t] >= 0 /\ hist.holding[t] = {}

C4_DependencyTiming ==
  \A t \in DOMAIN tasks_ : \A k \in DOMAIN tasks_[t].dependency_indices :
    LET d == tasks_[t].dependency_indices[k] IN
    hist.start_time[t] >= 0 =>
      /\ hist.finish_time[d] >= 0
      /\ hist.finish_time[d] <= hist.start_time[t]
      /\ (tasks_[d].host_index # tasks_[t].host_index /\ tasks_[d].network_time > 0)
           => hist.start_time[t] >= hist.finish_time[d] + tasks_[d].network_time

C4_Witness ==
  \E t \in DOMAIN tasks_ : \E k \in DOMAIN tasks_[t].dependency_indices :
    LET d == tasks_[t].dependency_indices[k] IN
    /\ hist.start_time[t] >= 0
    /\ tasks_[d].host_index # tasks_[t].host_index
    /\ tasks_[d].network_time > 0
    /\ tasks_[t].network_time # tasks_[d].network_time
    /\ hist.start_time[t] = hist.finish_time[d] + tasks_[d].network_time

ValidExperiment == AllHostsKnown /\ Acyclic /\ RamFits

\* The events one task process can ever schedule: its start, its sleep, a link
\* grant and a transfer per dependency, the RAM and CPU grants, its run, its put
\* and its completion signal.
MaxEvents == LET n == Len(tasks_) IN 8 * n + 2 * n * n

\* C5: when all hosts are known, the dependencies are acyclic and every task's RAM
\* fits its host, the run never stops short of its end: no error is raised, the
\* event queue empties only when every task is Done, and every step of the event
\* loop either schedules a new event (of boundedly many) or shrinks the event
\* queue, so the run ends, with run() returning and every task Done.
C5_DeadlockFree ==
  /\ [](ValidExperiment =>
          /\ status \notin {"ctor_error", "error"}
          /\ next_id <= 1 + MaxEvents
          /\ (status \in {"running", "returned"} /\ heap = {}) => AllDone
          /\ status = "returned" => heap = {})
  /\ [][(ValidExperiment /\ status = "running") =>
          \/ next_id' > next_id
          \/ Cardinality(heap') < Cardinality(heap)
          \/ status' = "returned"]_vars

C5_Witness ==
  /\ status = "returned" /\ ValidExperiment /\ AllDone /\ heap = {}
  /\ \E t \in DOMAIN tasks_ : hist.start_time[t] > tasks_[t].initial_sleep_time
  /\ \E t \in DOMAIN tasks_ : tasks_[t].dependency_indices # <<>>

\* C6 (as claimed): whenever a task's RAM exceeds the capacity of its host, run()
\* does not return normally and the task is not waiting in the get queue.
C6_OverCapacityFails ==
  (AllHostsKnown /\ ~RamFits) =>
    /\ status # "returned"
    /\ \A h \in DOMAIN ram : \A k \in DOMAIN ram[h].get_queue :
         ram[h].get_queue[k].amount <= ram[h].capacity

\* C7: a task list that names a host outside the configuration is rejected by the
\* constructor: no simulator is constructed and no process is ever started.
C7_UnknownHostRejected ==
  ~AllHostsKnown =>
    /\ status \notin {"constructed", "running", "returned", "error"}
    /\ \A t \in DOMAIN tasks_ : pc[t] = "NotStarted"
    /\ heap = {}

C7_Witness == status = "ctor_error" /\ ~AllHostsKnown

\* C8 (as claimed): run() returns normally only when every task is Done.
C8_NoPartialRun == status = "returned" => AllDone

GetsFired == {c_hist.fired[k] : k \in DOMAIN c_hist.fired}

\* C9 (as claimed): no get is granted while a get issued earlier is still waiting,
\* and no put while a put issued earlier is still waiting.
C9_ContainerFifo ==
  /\ \A k \in DOMAIN cont.get_queue : \A g \in GetsFired :
       (cont.get_queue[k].ev \notin c_aborted /\ g.kind = "get")
          => g.task < cont.get_queue[k].ev.task
  /\ \A k \in DOMAIN cont.put_queue : \A g \in GetsFired :
       (cont.put_queue[k].ev \notin c_aborted /\ g.kind = "put")
          => g.task < cont.put_queue[k].ev.task
  /\ \A h \in DOMAIN ram : \A k \in DOMAIN ram[h].get_queue : \A u \in DOMAIN tasks_ :
       (tasks_[u].host_index = h /\ hist.ram_state[u] \in {"granted", "returned"})
          => hist.get_at[u] < hist.get_at[ram[h].get_queue[k].ev.task]

\* Task u is past its co_await on the resource `key`.
Uses(u, key) ==
  \/ key \in hist.holding[u]
  \/ key = CpuKey(tasks_[u].host_index) /\ pc[u] = "Running"

ResourceOf(key) == IF key[1] = "cpu" THEN cpu[key[2]] ELSE links[<<key[2], key[3]>>]

ResourceKeys == {CpuKey(h) : h \in DOMAIN cpu} \cup {LinkKey(k[1], k[2]) : k \in DOMAIN links}

\* C10: for every CPU and every link, the waiters are queued in request order, a
\* slot is never free while a request waits, and every task using the resource
\* requested it before every task still waiting for it.
C10_ResourceFifo ==
  \A key \in ResourceKeys :
    LET r == ResourceOf(key) IN
    /\ r.waiters # <<>> => r.in_use = r.capacity
    /\ \A i, j \in DOMAIN r.waiters :
         i < j => hist.req_at[r.waiters[i].task] < hist.req_at[r.waiters[j].task]
    /\ \A i \in DOMAIN r.waiters : \A u \in DOMAIN tasks_ :
         (Uses(u, key) /\ u # r.waiters[i].task)
            => hist.req_at[u] < hist.req_at[r.waiters[i].task]

C10_Witness ==
  \E h \in DOMAIN cpu : \E u, v \in DOMAIN tasks_ :
    /\ cpu[h].waiters # <<>>
    /\ tasks_[v].host_index = h /\ hist.finish_time[v] >= 0
    /\ CpuKey(h) \in hist.holding[u] /\ hist.req_at[u] > hist.req_at[v]
    /\ hist.start_time[u] > tasks_[u].initial_sleep_time

\* C12 (as claimed): whenever run() has returned, the reported idle time
\* total_cores * sim_time - (sum of all run_time) is not negative.
C12_IdleNonNegative == status = "returned" => idle_time >= 0

\* The same, for task lists whose dependencies have no cycle.
IdleNonNegativeAcyclic == (status = "returned" /\ Acyclic) => idle_time >= 0

\* Two tasks of the same host, the first earlier in the task list, both without
\* initial sleep and without dependencies.
SameHostAtZero(i, j) ==
  /\ i < j
  /\ tasks_[i].host = tasks_[j].host
  /\ tasks_[i].initial_sleep_time = 0 /\ tasks_[j].initial_sleep_time = 0
  /\ tasks_[i].dependencies = <<>> /\ tasks_[j].dependencies = <<>>

\* C13 (as claimed): processes start in task list order; of two tasks of the same
\* host without sleep and dependencies the earlier one requests RAM first, at time 0,
\* and requests the CPU first, and is granted RAM and CPU no later than the other.
C13_ListOrderGrants ==
  /\ \A i, j \in DOMAIN tasks_ :
       (i < j /\ pc[j] \notin {"NotStarted", "Created"}) => pc[i] \notin {"NotStarted", "Created"}
  /\ \A i, j \in DOMAIN tasks_ : SameHostAtZero(i, j) =>
       /\ hist.get_at[j] > 0 =>
            /\ hist.get_at[i] > 0 /\ hist.get_at[i] < hist.get_at[j]
            /\ hist.ready_time[i] = 0 /\ hist.ready_time[j] = 0
       /\ hist.ram_at[j] >= 0 => (hist.ram_at[i] >= 0 /\ hist.ram_at[i] <= hist.ram_at[j])
       /\ hist.req_at[j] > 0 => (hist.req_at[i] > 0 /\ hist.req_at[i] < hist.req_at[j])
       /\ hist.start_time[j] >= 0 =>
            (hist.start_time[i] >= 0 /\ hist.start_time[i] <= hist.start_time[j])

\* A task list of exactly two tasks, both without initial sleep, on known hosts.
TwoTasks ==
  /\ Len(tasks_) = 2 /\ AllHostsKnown
  /\ tasks_[1].initial_sleep_time = 0 /\ tasks_[2].initial_sleep_time = 0
  /\ tasks_[1].dependencies = <<>>

\* S4: A and B on one host with at least two cores; each fits the RAM, both do not.
RamContention ==
  /\ TwoTasks /\ tasks_[2].dependencies = <<>>
  /\ tasks_[1].host = tasks_[2].host
  /\ hosts_cfg[tasks_[1].host].cpu_cores >= 2
  /\ tasks_[1].ram <= hosts_cfg[tasks_[1].host].ram
  /\ tasks_[2].ram <= hosts_cfg[tasks_[1].host].ram
  /\ tasks_[1].ram + tasks_[2].ram > hosts_cfg[tasks_[1].host].ram

\* C14: under RAM contention A starts at 0 and finishes at A.run_time, B starts
\* exactly when A finishes, no error is raised, and run() returns with both tasks
\* Done at sim_time = A.run_time + B.run_time.
C14_RamContentionSerialises ==
  RamContention =>
    /\ status # "error"
    /\ hist.start_time[1] >= 0 => hist.start_time[1] = 0
    /\ hist.finish_time[1] >= 0 => hist.finish_time[1] = tasks_[1].run_time
    /\ hist.start_time[2] >= 0 => hist.start_time[2] = tasks_[1].run_time
    /\ hist.start_time[2] >= 0 => hist.finish_time[1] = hist.start_time[2]
    /\ status = "returned" =>
         /\ AllDone
         /\ simulation_time = tasks_[1].run_time + tasks_[2].run_time
         /\ hist.finish_time[2] = simulation_time

C14_Witness ==
  /\ RamContention /\ status = "returned"
  /\ tasks_[1].run_time > tasks_[2].run_time /\ tasks_[2].run_time > 0
  /\ hist.ram_at[2] = tasks_[1].run_time

\* S3: A on one host, B on another, B depends on A, A's network_time is positive.
CrossHostPair ==
  /\ TwoTasks /\ tasks_[2].dependencies = <<tasks_[1].name>>
  /\ tasks_[1].host # tasks_[2].host
  /\ tasks_[1].network_time > 0
  /\ RamFits

\* C15: A finishes at A.run_time, B starts at A.run_time + A.network_time (the
\* transfer lasts the dependency's network_time, not B's own), and run() returns
\* at sim_time = A.run_time + A.network_time + B.run_time.
C15_CrossHostTiming ==
  CrossHostPair =>
    /\ status # "error"
    /\ hist.finish_time[1] >= 0 => hist.finish_time[1] = tasks_[1].run_time
    /\ hist.start_time[2] >= 0 =>
         hist.start_time[2] = tasks_[1].run_time + tasks_[1].network_time
    /\ status = "returned" =>
         /\ AllDone
         /\ simulation_time = tasks_[1].run_time + tasks_[1].network_time + tasks_[2].run_time

C15_Witness ==
  /\ CrossHostPair /\ status = "returned"
  /\ tasks_[2].network_time # tasks_[1].network_time
  /\ tasks_[1].run_time > 0 /\ tasks_[2].run_time > 0

\* S5: A and B on one single-core host whose RAM holds both.
CpuContention ==
  /\ TwoTasks /\ tasks_[2].dependencies = <<>>
  /\ tasks_[1].host = tasks_[2].host
  /\ hosts_cfg[tasks_[1].host].cpu_cores = 1
  /\ tasks_[1].ram + tasks_[2].ram <= hosts_cfg[tasks_[1].host].ram

\* C16: under CPU contention the CPU's in_use never exceeds 1, B starts exactly
\* when A finishes, and run() returns at sim_time = A.run_time + B.run_time.
C16_CpuContentionSerialises ==
  CpuContention =>
    /\ status # "error"
    /\ \A h \in DOMAIN cpu : tasks_[1].host_index = h => cpu[h].in_use <= 1
    /\ hist.start_time[1] >= 0 => hist.start_time[1] = 0
    /\ hist.start_time[2] >= 0 => hist.start_time[2] = hist.finish_time[1]
    /\ status = "returned" =>
         /\ AllDone
         /\ simulation_time = tasks_[1].run_time + tasks_[2].run_time

C16_Witness ==
  /\ CpuContention /\ status = "returned"
  /\ tasks_[1].run_time > 0 /\ tasks_[2].run_time > 0
  /\ hist.cpu_wait[2]

\* S2, S6: every task on the same single-core host, task i depends on task i - 1,
\* no initial sleep, every task's RAM fits.
Chain ==
  /\ Len(tasks_) >= 2 /\ AllHostsKnown /\ RamFits
  /\ hosts_cfg[tasks_[1].host].cpu_cores = 1
  /\ \A i \in DOMAIN tasks_ :
       /\ tasks_[i].host = tasks_[1].host
       /\ tasks_[i].initial_sleep_time = 0
       /\ tasks_[i].dependencies = IF i = 1 THEN <<>> ELSE <<tasks_[i - 1].name>>

\* C17: a chain raises no error, each task starts exactly when its predecessor
\* finishes, and run() returns with every task Done at sim_time = the sum of the
\* run times.
C17_ChainSumsRunTimes ==
  Chain =>
    /\ status # "error"
    /\ \A i \in DOMAIN tasks_ :
         (i > 1 /\ hist.start_time[i] >= 0) => hist.start_time[i] = hist.finish_time[i - 1]
    /\ status = "returned" =>
         /\ AllDone
         /\ simulation_time = total_cpu_work

C17_Witness ==
  /\ Chain /\ status = "returned" /\ Len(tasks_) = NumTasks
  /\ simulation_time >= NumTasks

ZeroTask(z) == tasks_[z].run_time = 0 /\ tasks_[z].ram = 0

C19_InvalidAmountChangesNothing ==
  /\ c_hist.last.op # "none" =>
       (c_hist.last.error <=> c_hist.last.amount > c_hist.last.before.capacity)
  /\ c_hist.last.error => (cont = c_hist.last.before /\ c_hist.last.granted = <<>>)
  /\ \A t \in DOMAIN tasks_ : pc[t] = "Failed" =>
       LET h == tasks_[t].host_index IN
       /\ tasks_[t].ram > ram[h].capacity
       /\ hist.ram_state[t] = "none"
       /\ \A k \in DOMAIN ram[h].get_queue : ram[h].get_queue[k].ev.task # t

C19_Witness ==
  /\ c_hist.last.error /\ c_hist.last.op = "put"
  /\ c_hist.last.before.get_queue # <<>>
  /\ c_hist.last.before.level > 0

\* Some task names a dependency that is not the name of a task.
UndefinedDependency ==
  \E i \in DOMAIN tasks_ : \E k \in DOMAIN tasks_[i].dependencies :
    NameToIndex(tasks_, tasks_[i].dependencies[k]) = 0

HeaderAccepted == csv.headers # <<>>

\* C21 (as claimed): a header is accepted only if it holds exactly the seven
\* required column names, each once.
C21_HeaderEachOnce ==
  HeaderAccepted =>
    /\ Range(csv.headers) = expected_headers
    /\ Len(csv.headers) = Len(ColumnNames)

\* What the header test decides: a header is accepted exactly when the set of its
\* column names is the set of the seven required names.
HeaderSetExact ==
  csv.state \notin {"none", "open"} /\ csv.lines # <<>> =>
    (HeaderAccepted <=> Range(parse_csv_line(csv.lines[1])) = expected_headers)

\* The text is a minus sign followed by digits only, one of them not 0.
NegativeText(t) ==
  /\ Len(t) >= 2 /\ t[1] = "-"
  /\ \A k \in 2..Len(t) : t[k] \in Digits
  /\ \E k \in 2..Len(t) : DigitValue(t[k]) > 0

\* Line i of the file holds a negative number in a column of one of the four
\* numeric names.
NegativeRow(i) ==
  LET fields == parse_csv_line(csv.lines[i]) IN
  \E p \in DOMAIN csv.headers :
    /\ csv.headers[p] \in {<<n>> : n \in NumericColumns}
    /\ p \in DOMAIN fields
    /\ NegativeText(fields[p])

\* C22: when the header names each column once, a row that has been read and holds
\* a negative initial sleep time, run time, RAM or network time ends the call in an
\* error with no task returned, and every task kept by the call has all four
\* values >= 0.
C22_NegativeRejected ==
  /\ \A k \in DOMAIN csv.tasks :
       /\ csv.tasks[k].initial_sleep_time >= 0 /\ csv.tasks[k].run_time >= 0
       /\ csv.tasks[k].ram >= 0 /\ csv.tasks[k].network_time >= 0
  /\ (HeaderAccepted /\ Len(csv.headers) = Len(ColumnNames)) =>
       \A i \in 2..csv.row_num :
         (i \in DOMAIN csv.lines /\ NegativeRow(i)) =>
            (csv.state = "error" /\ csv.tasks = <<>> /\ csv.row_num = i)

C22_Witness ==
  /\ csv.state = "error" /\ csv.row_num = 3 /\ Len(csv.headers) = Len(ColumnNames)
  /\ csv.headers # ColumnNames
  /\ NegativeRow(3) /\ ~NegativeRow(2)
  /\ LET fields == parse_csv_line(csv.lines[3]) IN
     /\ Len(fields) = Len(csv.headers)
     /\ NegativeText(fields[header_index(csv.headers, "TASK_RAM")])
     /\ \A n \in NumericColumns \ {"TASK_RAM"} :
          fields[header_index(csv.headers, n)] = <<"1">>

\* The place of a lifecycle phase in the order Created, Sleeping, WaitingDeps,
\* Transferring (waiting for the link, then the transfer), WaitingRam, WaitingCpu,
\* Running, Done (Releasing: awaiting ram.put; Failed: left by an exception).
PhaseRank(p) ==
  CASE p = "NotStarted"   -> 0
    [] p = "Created"      -> 1
    [] p = "Sleeping"     -> 2
    [] p = "WaitingDeps"  -> 3
    [] p = "WaitingLink"  -> 4
    [] p = "Transferring" -> 5
    [] p = "WaitingRam"   -> 6
    [] p = "WaitingCpu"   -> 7
    [] p = "Running"      -> 8
    [] p = "Releasing"    -> 9
    [] p = "Done"         -> 10
    [] OTHER              -> 11

\* C23 (as claimed): no step takes a task back to an earlier phase; in particular
\* a task that is waiting for a link or transferring never goes back to waiting
\* for a dependency's completion signal.
C23_PhasesOneDirection ==
  [][\A t \in DOMAIN tasks_ : PhaseRank(pc'[t]) >= PhaseRank(pc[t])]_vars

\* What holds instead: the only step back is from the end of a transfer to the
\* wait (or the link request) for a later dependency of the list; the position in
\* the dependency list never decreases, and a task that has asked for RAM never
\* goes back.
PhasesForwardPerDependency ==
  [][\A t \in DOMAIN tasks_ :
       /\ dep_pos'[t] >= dep_pos[t]
       /\ PhaseRank(pc'[t]) < PhaseRank(pc[t]) =>
            /\ pc[t] = "Transferring" /\ pc'[t] \in {"WaitingDeps", "WaitingLink"}
            /\ dep_pos'[t] > dep_pos[t]]_vars

\* Dependency d of task t is on another host and has data to send.
NeedsTransfer(t, d) ==
  tasks_[d].host_index # tasks_[t].host_index /\ tasks_[d].network_time > 0

LinksHeld(t) == {k \in hist.holding[t] : k[1] = "link"}

LinksAwaited(t) == {k \in DOMAIN links : \E i \in DOMAIN links[k].waiters : links[k].waiters[i].task = t}

InTransfer(t) == pc[t] \in {"WaitingLink", "Transferring"}

Transfers == {x \in (DOMAIN tasks_) \X (1..NumTasks) : x[2] \in DOMAIN hist.xfer[x[1]]}

Transfer(x) == hist.xfer[x[1]][x[2]]

\* C25: on every directed link at most one task is transferring; of two transfers
\* over the same link the one requested first has ended when the other starts; and
\* a task whose request for the link of dependency d found the link busy starts
\* strictly later than finish_time(d) + d.network_time.
C25_OneTransferPerLink ==
  /\ \A k \in DOMAIN links :
       Cardinality({t \in DOMAIN tasks_ :
                      pc[t] = "Transferring" /\ Transfer(<<t, Len(hist.xfer[t])>>).link = k}) <= 1
  /\ \A x, y \in Transfers :
       (Transfer(x).link = Transfer(y).link /\ Transfer(x).no < Transfer(y).no
          /\ Transfer(y).start >= 0)
         => (Transfer(x).end >= 0 /\ Transfer(x).end <= Transfer(y).start)
  /\ \A x \in Transfers :
       (Transfer(x).busy /\ hist.start_time[x[1]] >= 0) =>
          hist.start_time[x[1]] >
            hist.finish_time[Transfer(x).dep] + tasks_[Transfer(x).dep].network_time

C25_Witness ==
  \E x, y \in Transfers :
    /\ x[1] # y[1] /\ tasks_[x[1]].host_index = tasks_[y[1]].host_index
    /\ Transfer(x).link = Transfer(y).link
    /\ Transfer(x).no < Transfer(y).no /\ Transfer(y).busy
    /\ Transfer(y).start = Transfer(x).end
    /\ hist.start_time[y[1]] >= 0

\* The virtual time at which task t came to the k-th dependency of its list.
ArrivedAt(t, k) ==
  IF k = 1 THEN tasks_[t].initial_sleep_time ELSE hist.passed[t][k - 1]

\* C26: a task passes a dependency that is on its own host, or whose network_time
\* is 0, at the later of the time it came to that dependency and the time the
\* dependency finished (when its completion signal fired); it requests no link for
\* it, and every task that holds or awaits a link does so for a dependency on
\* another host with a positive network_time.
C26_NoTransferNoDelay ==
  /\ \A t \in DOMAIN tasks_ : \A k \in DOMAIN hist.passed[t] :
       LET d == tasks_[t].dependency_indices[k] IN
       ~NeedsTransfer(t, d) =>
         /\ hist.finish_time[d] >= 0
         /\ hist.passed[t][k] = Max({ArrivedAt(t, k), hist.finish_time[d]})
         /\ \A i \in DOMAIN hist.xfer[t] : hist.xfer[t][i].dep # d
  /\ \A t \in DOMAIN tasks_ :
       (LinksHeld(t) # {} \/ LinksAwaited(t) # {}) => NeedsTransfer(t, CurrentDep(World, t))
  /\ \A k \in DOMAIN links :
       links[k].in_use + Len(links[k].waiters) =
         Cardinality({t \in DOMAIN tasks_ :
            InTransfer(t) /\ NeedsTransfer(t, CurrentDep(World, t))
            /\ k = <<tasks_[CurrentDep(World, t)].host_index, tasks_[t].host_index>>})

C26_Witness ==
  \E t \in DOMAIN tasks_ : \E i, j \in DOMAIN hist.passed[t] :
    LET a == tasks_[t].dependency_indices[i]
        b == tasks_[t].dependency_indices[j]
    IN  /\ tasks_[a].host_index = tasks_[t].host_index /\ tasks_[a].network_time > 0
        /\ tasks_[b].host_index # tasks_[t].host_index /\ tasks_[b].network_time = 0
        /\ hist.passed[t][i] > ArrivedAt(t, i)
        /\ pc[t] = "Done"

CoresHeld(t) == {k \in hist.holding[t] : k[1] = "cpu"}

CoresAwaited(t) == {h \in DOMAIN cpu : \E i \in DOMAIN cpu[h].waiters : cpu[h].waiters[i].task = t}

\* C27: a task holds a core only of its own host and only between the grant of its
\* CPU request and the end of its run: it holds and awaits none before it has been
\* granted its RAM and none after "Finished execution"; while Running it holds one
\* and its run ends run_time after the grant; and every task that has finished,
\* one with run_time = 0 included, was granted a core and released it exactly
\* run_time later.
C27_CoreHeldOnlyWhileRunning ==
  \A t \in DOMAIN tasks_ :
    /\ CoresHeld(t) \subseteq {CpuKey(tasks_[t].host_index)}
    /\ CoresHeld(t) # {} =>
         /\ pc[t] \in {"WaitingCpu", "Running"}
         /\ hist.cpu_at[t] >= 0 /\ hist.cpu_rel[t] < 0
         /\ now <= hist.cpu_at[t] + tasks_[t].run_time
    /\ CoresAwaited(t) # {} => (pc[t] = "WaitingCpu" /\ CoresHeld(t) = {})
    /\ pc[t] \in {"NotStarted", "Created", "Sleeping", "WaitingDeps", "WaitingLink",
                  "Transferring", "WaitingRam"} => hist.cpu_at[t] < 0
    /\ pc[t] = "Running" =>
         /\ CoresHeld(t) # {} /\ hist.start_time[t] = hist.cpu_at[t]
         /\ \E e \in heap : e.ev = Ev("timeout", t)
                            /\ e.time = hist.cpu_at[t] + tasks_[t].run_time
    /\ pc[t] \in {"Releasing", "Done"} =>
         /\ hist.cpu_at[t] >= 0
         /\ hist.cpu_rel[t] = hist.cpu_at[t] + tasks_[t].run_time
         /\ hist.finish_time[t] = hist.cpu_rel[t]

C27_Witness ==
  \E z, u \in DOMAIN tasks_ :
    /\ tasks_[z].run_time = 0 /\ tasks_[z].ram > 0 /\ pc[z] = "Done"
    /\ hist.cpu_wait[z] /\ hist.cpu_rel[z] > hist.ready_time[z]
    /\ tasks_[u].run_time > 0 /\ pc[u] = "Running" /\ hist.cpu_at[u] = hist.cpu_rel[z]

\* The sum of the amounts of the first n requests of a queue.
RECURSIVE AmountOfFirst(_, _)
AmountOfFirst(q, n) == IF n = 0 THEN 0 ELSE q[n].amount + AmountOfFirst(q, n - 1)

\* The last call took the fast path: it was granted at once and then drained the
\* queue of the other kind.
LastDrained ==
  /\ c_hist.last.op \in {"get", "put"} /\ ~c_hist.last.error
  /\ c_hist.last.granted # <<>>

\* The queue the last call drained as it was before the call, the requests of it
\* that were not aborted, and the quantity a drain can hand out (the level, for a
\* drain of gets after a put; the room left, for a drain of puts after a get).
DrainedQueue ==
  IF c_hist.last.op = "put" THEN c_hist.last.before.get_queue
  ELSE c_hist.last.before.put_queue

DrainedLive == SelectSeq(DrainedQueue, LAMBDA req : req.ev \notin c_hist.last.aborted)

DrainBudget ==
  IF c_hist.last.op = "put" THEN c_hist.last.before.level + c_hist.last.amount
  ELSE c_hist.last.before.capacity - (c_hist.last.before.level - c_hist.last.amount)

QueueAfterDrain == IF c_hist.last.op = "put" THEN cont.get_queue ELSE cont.put_queue

\* C28: a drain grants the waiting requests that are not aborted from the head, in
\* queue order, while the level (the room, for puts) covers them, and stops at the
\* first that it does not cover: that request and every request behind it stay
\* queued, in order, whether or not the level would cover one of them; the aborted
\* requests ahead of it are dropped.
C28_HeadOfLineBlocking ==
  LastDrained =>
    LET drained == Tail(c_hist.last.granted)
        n == Len(drained)
    IN  /\ n <= Len(DrainedLive)
        /\ \A k \in 1..n : drained[k] = DrainedLive[k].ev
        /\ AmountOfFirst(DrainedLive, n) <= DrainBudget
        /\ n < Len(DrainedLive) => AmountOfFirst(DrainedLive, n + 1) > DrainBudget
        /\ n = Len(DrainedLive) => QueueAfterDrain = <<>>
        /\ n < Len(DrainedLive) =>
             LET at == CHOOSE i \in DOMAIN DrainedQueue : DrainedQueue[i] = DrainedLive[n + 1]
             IN  QueueAfterDrain = SubSeq(DrainedQueue, at, Len(DrainedQueue))

C28_Witness ==
  /\ LastDrained /\ c_hist.last.op = "put" /\ c_hist.last.amount > 0
  /\ Len(cont.get_queue) >= 2
  /\ cont.get_queue[1].ev \notin c_aborted
  /\ cont.get_queue[1].amount > cont.level
  /\ cont.get_queue[2].amount <= cont.level /\ cont.get_queue[2].amount > 0

\* The request at position k of the get queue (of the put queue) is not aborted,
\* every request ahead of it is, and the level (the room) covers it.
GetBlockedByAborted(k) ==
  /\ cont.get_queue[k].ev \notin c_aborted
  /\ k > 1 /\ \A i \in 1..(k - 1) : cont.get_queue[i].ev \in c_aborted
  /\ cont.level >= cont.get_queue[k].amount

PutBlockedByAborted(k) ==
  /\ cont.put_queue[k].ev \notin c_aborted
  /\ k > 1 /\ \A i \in 1..(k - 1) : cont.put_queue[i].ev \in c_aborted
  /\ cont.level + cont.put_queue[k].amount <= cont.capacity

\* An aborted request is never granted.
AbortedNeverGranted == \A k \in DOMAIN c_hist.fired : c_hist.fired[k] \notin c_aborted

\* C29 (as claimed): an aborted request is never granted, and no request that the
\* current level can satisfy waits with nothing but aborted requests ahead of it.
C29_AbortedNeverDelays ==
  /\ AbortedNeverGranted
  /\ \A k \in DOMAIN cont.get_queue : ~GetBlockedByAborted(k)
  /\ \A k \in DOMAIN cont.put_queue : ~PutBlockedByAborted(k)

\* What holds instead: aborted requests are dropped only when their queue is
\* drained.  Right after a drain the head of the drained queue, if any, is a request
\* that is not aborted and that the level (the room) does not cover.
AbortedDroppedAtDrain ==
  /\ AbortedNeverGranted
  /\ (LastDrained /\ c_aborted = c_hist.last.aborted /\ QueueAfterDrain # <<>>) =>
       /\ Head(QueueAfterDrain).ev \notin c_aborted
       /\ IF c_hist.last.op = "put"
          THEN cont.level < Head(QueueAfterDrain).amount
          ELSE cont.level + Head(QueueAfterDrain).amount > cont.capacity

\* The names of a task's dependency list that are names of tasks, in declaration order.
KnownDependencies(t) ==
  SelectSeq(tasks_[t].dependencies, LAMBDA n : \E j \in DOMAIN tasks_ : tasks_[j].name = n)

\* The process of task t is subscribed to the completion signal at position d.
Awaits(t, d) == \E k \in DOMAIN subs[d] : subs[d][k] = t

LinksBuilt == status \in {"constructed", "running", "returned", "error", "network_ready"}

\* The number of hosts the fabric was constructed for.
FabricHosts ==
  IF status = "network_ready" THEN hist.num_hosts ELSE Cardinality(DOMAIN hosts_cfg)

\* C31: a fabric constructed for n hosts holds n*(n-1) links, a capacity-1 resource
\* for exactly the ordered pairs of distinct hosts among the n; a call of get_link
\* fails exactly when the pair has no link, returns the pair's link otherwise, and
\* leaves the set of links as it was.
C31_FabricLinks ==
  LinksBuilt =>
    LET n == FabricHosts
        c == hist.link_call
    IN  /\ Cardinality(DOMAIN links) = n * (n - 1)
        /\ DOMAIN links = {k \in (1..n) \X (1..n) : k[1] # k[2]}
        /\ \A k \in DOMAIN links : links[k].capacity = 1
        /\ c.from # 0 =>
              /\ c.error <=> (c.from = c.to \/ c.from > n \/ c.to > n)
              /\ ~c.error => c.link = <<c.from, c.to>>
              /\ links = c.before

\* On a fabric of three hosts, with its six links, get_link was called for a host
\* paired with itself and failed.
C31_Witness ==
  /\ status = "network_ready" /\ hist.num_hosts = 3
  /\ Cardinality(DOMAIN links) = 6
  /\ hist.link_call.from = 2 /\ hist.link_call.to = 2 /\ hist.link_call.error

\* C32: in a run, the event processed last was scheduled for a time not before that
\* of the event processed before it, and for the same time only if it was scheduled
\* later; the clock shows the time the processed event was scheduled for; when the
\* event is one that a process triggered, that is the time of the trigger, and the
\* start time a task notes on resuming from its CPU grant is the time of the grant.
C32_EventOrder ==
  (status \in {"running", "returned", "error"} /\ hist.last.id # 0) =>
    /\ hist.prev.time <= hist.last.time
    /\ hist.prev.time = hist.last.time => hist.prev.id < hist.last.id
    /\ now = hist.last.time
    /\ hist.last.ev \in TriggeredEvents => now = hist.trig_at[hist.last.ev]
    /\ \A t \in DOMAIN tasks_ :
         hist.start_time[t] >= 0 => hist.start_time[t] = hist.trig_at[Ev("cpu", t)]

\* Two events of one positive time were processed one after the other, the second
\* a grant, while further events scheduled for that time and for a later time wait.
C32_Witness ==
  /\ status = "running" /\ now > 0
  /\ hist.prev.time = hist.last.time /\ hist.prev.id # 0
  /\ hist.last.ev \in TriggeredEvents
  /\ \E e \in heap : e.time = now
  /\ \E e \in heap : e.time > now /\ e.id < hist.last.id

\* The tasks of host h whose RAM request was granted and whose RAM is not yet back.
RamHolders(h) ==
  {u \in DOMAIN tasks_ : tasks_[u].host_index = h /\ hist.ram_state[u] = "granted"}

\* The RAM those tasks hold together.
RamHeld(h) == SumOver([u \in DOMAIN tasks_ |-> tasks_[u].ram], RamHolders(h))

\* C33: from construction on, on every host the level of the RAM container plus the
\* RAM of the tasks that were granted RAM and have not returned it is the capacity
\* the host was configured with; a task that waits for a core or executes is among
\* the holders.
C33_RamConservation ==
  status \in {"constructed", "running", "returned", "error"} =>
    /\ \A h \in DOMAIN ram :
         /\ ram[h].capacity = hosts_cfg[h].ram
         /\ ram[h].level + RamHeld(h) = ram[h].capacity
    /\ \A t \in DOMAIN tasks_ :
         pc[t] \in {"WaitingCpu", "Running"} => t \in RamHolders(tasks_[t].host_index)

\* On one host a task executes, a second waits for the busy core with its RAM, and
\* a third waits for RAM: nothing is left in the container.
C33_Witness ==
  /\ status = "running"
  /\ \E h \in DOMAIN ram : \E a, b, c \in DOMAIN tasks_ :
       /\ tasks_[a].host_index = h /\ tasks_[b].host_index = h /\ tasks_[c].host_index = h
       /\ pc[a] = "Running" /\ tasks_[a].ram > 0
       /\ pc[b] = "WaitingCpu" /\ hist.cpu_wait[b] /\ tasks_[b].ram > 0
       /\ \E k \in DOMAIN ram[h].get_queue : ram[h].get_queue[k].ev = Ev("get", c)
       /\ ram[h].level = 0

\* run() has returned and every task has reached Done.
ReturnedAllDone == status = "returned" /\ \A t \in DOMAIN tasks_ : pc[t] = "Done"

\* C34: when run() has returned with every task Done, every host's RAM container is
\* full again, no core and no link is in use, nothing waits for RAM, a core, a link
\* or a completion signal, and no event is left in the queue.
C34_ResourcesRestored ==
  ReturnedAllDone =>
    /\ \A h \in DOMAIN ram :
         /\ ram[h].level = ram[h].capacity /\ ram[h].capacity = hosts_cfg[h].ram
         /\ ram[h].get_queue = <<>> /\ ram[h].put_queue = <<>>
    /\ \A h \in DOMAIN cpu : cpu[h].in_use = 0 /\ cpu[h].waiters = <<>>
    /\ \A k \in DOMAIN links : links[k].in_use = 0 /\ links[k].waiters = <<>>
    /\ \A d \in TaskIds : subs[d] = <<>>
    /\ heap = {}

\* A run of the full task list that returned with every task Done after a task had
\* waited for a busy core, a transfer had waited for a busy link and RAM had been
\* taken.
C34_Witness ==
  /\ ReturnedAllDone /\ Len(tasks_) = NumTasks /\ now > 0
  /\ \E t \in DOMAIN tasks_ : hist.cpu_wait[t]
  /\ \E t \in DOMAIN tasks_ : \E k \in DOMAIN hist.xfer[t] : hist.xfer[t][k].busy
  /\ \E t \in DOMAIN tasks_ : tasks_[t].ram > 0

\* A get or put call on the stand-alone container has just returned: no request was
\* marked aborted since.
CallReturned ==
  /\ status = "container"
  /\ c_hist.last.op \in {"get", "put"} /\ ~c_hist.last.error
  /\ c_aborted = c_hist.last.aborted

\* The head of the queue is a request that is not aborted and that the level (the
\* room left) covers.
GetHeadSatisfiable(c, aborted) ==
  /\ c.get_queue # <<>> /\ Head(c.get_queue).ev \notin aborted
  /\ c.level >= Head(c.get_queue).amount

PutHeadSatisfiable(c, aborted) ==
  /\ c.put_queue # <<>> /\ Head(c.put_queue).ev \notin aborted
  /\ c.level + Head(c.put_queue).amount <= c.capacity

\* C35 (as claimed): after a get or put call has returned, the head of the get queue
\* is not a live request the level covers and the head of the put queue is not a
\* live request that fits under the capacity.
C35_NoLostWakeup ==
  CallReturned => ~GetHeadSatisfiable(cont, c_aborted) /\ ~PutHeadSatisfiable(cont, c_aborted)

\* What holds instead: the queue that the call's fast path drained has no
\* satisfiable live head (the other queue is not looked at again), and in a
\* simulation run, where a put never has to wait, no RAM container has one.
NoLostWakeupInDrainedQueue ==
  /\ (CallReturned /\ c_hist.last.granted # <<>>) =>
        IF c_hist.last.op = "put"
        THEN ~GetHeadSatisfiable(cont, c_aborted)
        ELSE ~PutHeadSatisfiable(cont, c_aborted)
  /\ \A h \in DOMAIN ram : ~GetHeadSatisfiable(ram[h], {}) /\ ~PutHeadSatisfiable(ram[h], {})

\* The latest time at which a task's execution ended; 0 if none has ended.
LatestFinish == Max({0} \cup {hist.finish_time[t] : t \in DOMAIN tasks_})

\* C36 (as claimed): when run() has returned, sim_.now() is the latest finish time
\* of the tasks, and the event processed last was not scheduled for a later time.
C36_SimTimeIsLatestFinish ==
  status = "returned" => simulation_time = LatestFinish /\ hist.last.time <= LatestFinish

\* What holds instead: the same, for the runs that return with every task Done.
SimTimeIsLatestFinishWhenAllDone ==
  ReturnedAllDone => simulation_time = LatestFinish /\ hist.last.time <= LatestFinish

\* Some name of the task's dependency list is the name of no task.
HasUnknownDependency(t) == Len(KnownDependencies(t)) < Len(tasks_[t].dependencies)

\* C37: a dependency name that is the name of no task does not make the constructor
\* fail, and gets no index; the task passes and awaits completion signals of tasks
\* named in its list only, and a task none of whose dependency names is a task name
\* never waits for a signal: it asks for RAM when its initial sleep is over.
C37_UnknownDependencyDropped ==
  /\ status = "ctor_error" => ~AllHostsKnown
  /\ status \in {"constructed", "running", "returned", "error"} =>
       \A t \in DOMAIN tasks_ :
         LET known == KnownDependencies(t) IN
         /\ Len(tasks_[t].dependency_indices) = Len(known)
         /\ Len(hist.passed[t]) <= Len(known)
         /\ \A d \in TaskIds :
              Awaits(t, d) =>
                d \in DOMAIN tasks_ /\ \E k \in DOMAIN known : known[k] = tasks_[d].name
         /\ known = <<>> =>
              /\ pc[t] # "WaitingDeps"
              /\ hist.ready_time[t] >= 0 =>
                   hist.ready_time[t] = tasks_[t].initial_sleep_time

\* run() returned with every task Done; a task whose only dependency name is the
\* name of no task asked for RAM before the first task of the list had finished.
C37_Witness ==
  /\ ReturnedAllDone
  /\ \E t \in DOMAIN tasks_ :
       /\ t # 1 /\ tasks_[t].dependencies = <<UnknownName>>
       /\ HasUnknownDependency(t)
       /\ hist.ready_time[t] >= 0 /\ hist.ready_time[t] < hist.finish_time[1]

\* Task u had to wait for its RAM: the grant came later than the request.
WaitedForRam(u) == hist.ram_at[u] >= 0 /\ hist.ram_at[u] > hist.ready_time[u]

\* C38: in a run no put waits in any host's RAM container; a task whose execution has
\* ended has its RAM back, the put granted at the time the execution ended; no
\* request at the head of a get queue is left waiting that the level covers; and a
\* task that had to wait for RAM was granted it at the time a task of its host
\* ended its execution and put its RAM back.
C38_PutNeverBlocks ==
  status \in {"running", "returned", "error"} =>
    /\ \A h \in DOMAIN ram : ram[h].put_queue = <<>> /\ ~GetHeadSatisfiable(ram[h], {})
    /\ \A t \in DOMAIN tasks_ :
         hist.finish_time[t] >= 0 =>
           /\ hist.ram_state[t] = "returned"
           /\ hist.trig_at[Ev("put", t)] = hist.finish_time[t]
    /\ \A u \in DOMAIN tasks_ :
         WaitedForRam(u) =>
           \E t \in DOMAIN tasks_ :
             /\ t # u /\ tasks_[t].host_index = tasks_[u].host_index
             /\ hist.finish_time[t] = hist.ram_at[u]

\* A task has just ended its execution and put its RAM back; the put was granted and
\* granted the RAM request of a task that had been waiting, at the same time, while
\* a further request still waits.
C38_Witness ==
  /\ status = "running" /\ now > 0
  /\ \E t, u \in DOMAIN tasks_ :
       /\ t # u /\ tasks_[t].host_index = tasks_[u].host_index
       /\ pc[t] = "Releasing" /\ hist.finish_time[t] = now /\ tasks_[t].ram > 0
       /\ pc[u] = "WaitingRam" /\ WaitedForRam(u) /\ hist.ram_at[u] = now
       /\ ram[tasks_[t].host_index].get_queue # <<>>

====
